---- MODULE Spec2Model ----
(***************************************************************************)
(* Model of the ews-workmail client library: the impersonation client's    *)
(* token cache (getToken), the repository operations of the impersonation  *)
(* client and of the basic-auth client, and the availability queries.      *)
(*                                                                         *)
(* Time is counted in seconds.  Tokens granted by the identity-assumption  *)
(* service are numbered by the call that granted them.                     *)
(***************************************************************************)
EXTENDS Integers, Sequences, FiniteSets, TLC

\* ------------------------------------------------------------------------
\* Bounds
\* ------------------------------------------------------------------------

\* largest number of clock ticks in one behaviour
MaxTicks == 2

\* last instant the clock can reach
MaxNow == MaxTicks * 300

\* largest number of AssumeImpersonationRole calls in one behaviour
MaxAwsCalls == 2

\* largest number of getToken invocations in one behaviour
MaxInvocations == 3

\* number of concurrent callers of one client
NumCallers == 2

Callers == 1..NumCallers

\* the steps by which the clock advances
TickSteps == {300}

\* the lifetimes (ExpiresIn, seconds) the identity service can grant
Lifetimes == {300, 900}

\* ------------------------------------------------------------------------
\* Constants of the program
\* ------------------------------------------------------------------------

Second == 1

Minute == 60 * Second

tokenRefreshBuffer == 5 * Minute

\* currentToken == nil
NoToken == 0

\* tokenLock not held
Unlocked == 0

\* a nil error
NoError == ""

\* a nil pointer field of a response
Nil == -1

VARIABLES
    now,            \* time.Now()
    currentToken,   \* ImpersonationClient.currentToken (NoToken when nil)
    tokenExpiry,    \* ImpersonationClient.tokenExpiry
    tokenLock,      \* ImpersonationClient.tokenLock: its holder, or Unlocked
    pc,             \* position of each caller inside getToken
    ret,            \* what each caller's last getToken returned
    hist,           \* per caller, facts about its current getToken call
    awsCalls,       \* number of AssumeImpersonationRole calls issued so far
    grants,         \* outcome of each AssumeImpersonationRole call, in order
    invocations,    \* number of getToken invocations so far
    op,             \* the last repository operation: its inputs and outcome
    TimeZone,       \* EWSClient.TimeZone, ImpersonationClient.timeZone
    avail,          \* the last availability query: its inputs and outcome
    date,           \* the last date conversion: its inputs and outcome
    conc            \* per goroutine, its position in an operation that
                    \* touches the client's timezone

tokenVars == <<now, currentToken, tokenExpiry, tokenLock, pc, ret, hist,
               awsCalls, grants, invocations>>

\* what the steps of getToken leave alone
otherVars == <<op, TimeZone, avail, date, conc>>

vars == <<tokenVars, op, TimeZone, avail, date, conc>>

\* ------------------------------------------------------------------------
\* Times, locations and date strings
\* ------------------------------------------------------------------------

\* a *time.Location: a standard offset, and a second offset in force for
\* the instants from <= u < to; a fixed zone has both offsets equal
Location(name, std, dst, from, to) ==
    [name |-> name, std |-> std, dst |-> dst, from |-> from, to |-> to]

UTC == Location("UTC", 0, 0, 0, 0)

\* a zone half an hour east of UTC all year
East == Location("East", 30 * Minute, 30 * Minute, 0, 0)

\* a zone that moves its clocks half an hour forward at 00:45 and back at
\* 02:30 (instants counted from 00:00 UTC of the day of the runs)
Summer == Location("Summer", 0, 30 * Minute, 45 * Minute, 150 * Minute)

\* a zone on local mean time, 19 minutes and 32 seconds east of UTC (the
\* database holds such offsets for the years before standard time)
Mean == Location("Mean", 19 * Minute + 32 * Second, 19 * Minute + 32 * Second,
                 0, 0)

\* the zones of the timezone database
Locations == {UTC, East, Summer, Mean}

\* time.Local
Local == UTC

\* the names handed to time.LoadLocation: names of the timezone database,
\* the two names LoadLocation knows by itself, and a name that is unknown
ZoneNames == {"UTC", "Local", "East", "Summer", "Mean", "Nowhere/Unknown"}

\* time.LoadLocation(name): "UTC" and "Local" first, then the database
LoadLocation(name) ==
    IF name = "UTC" THEN [ok |-> TRUE, loc |-> UTC]
    ELSE IF name = "Local" THEN [ok |-> TRUE, loc |-> Local]
    ELSE IF \E l \in Locations : l.name = name
    THEN [ok |-> TRUE, loc |-> CHOOSE l \in Locations : l.name = name]
    ELSE [ok |-> FALSE, loc |-> UTC]

\* SetTimezone with the assignment ahead of the error test, the location
\* of a failed load being the zero one
SetTimezoneAssignFirst(tz, name) ==
    LET l == LoadLocation(name)
    IN [tz |-> l.loc,
        err |-> IF l.ok THEN "" ELSE "invalid timezone"]

\* SetTimezone of either client: the timezone the client has afterwards,
\* and the error returned ("" for nil)
SetTimezone(tz, name) ==
    LET l == LoadLocation(name)
    IN IF ~l.ok THEN [tz |-> tz, err |-> "invalid timezone"]
       ELSE [tz |-> l.loc, err |-> ""]

\* NewClientWithTimezone: the client returned, a pointer (the empty
\* sequence for nil), and the error
NewClientWithTimezone(name) ==
    LET l == LoadLocation(name)
    IN IF ~l.ok THEN [client |-> << >>, err |-> "invalid timezone"]
       ELSE [client |-> <<[TimeZone |-> l.loc]>>, err |-> ""]

\* time.FixedZone("", off)
FixedZone(off) == Location("", off, off, 0, 0)

\* the offset in force in loc at instant u
ZoneOffset(loc, u) ==
    IF loc.from <= u /\ u < loc.to THEN loc.dst ELSE loc.std

\* the bounds of the period of loc that holds instant u (Location.lookup);
\* -1 before the first transition, Infinity after the last
Infinity == 1000000

ZoneStart(loc, u) ==
    IF loc.from >= loc.to THEN -Infinity
    ELSE IF u < loc.from THEN -Infinity
    ELSE IF u < loc.to THEN loc.from ELSE loc.to

ZoneEnd(loc, u) ==
    IF loc.from >= loc.to THEN Infinity
    ELSE IF u < loc.from THEN loc.from
    ELSE IF u < loc.to THEN loc.to ELSE Infinity

\* a time.Time: an instant (seconds) and the location it is shown in
Time(u, loc) == [unix |-> u, loc |-> loc]

\* t.In(loc)
In(t, loc) == Time(t.unix, loc)

\* t.Add(d)
Add(t, d) == Time(t.unix + d, t.loc)

\* t.Before(u), t.After(u), t.Sub(u)
Before(t, u) == t.unix < u.unix

After(t, u) == t.unix > u.unix

Sub(t, u) == t.unix - u.unix

\* the wall clock t shows, as seconds
Wall(t) == t.unix + ZoneOffset(t.loc, t.unix)

\* time.Date(fields of wall, loc): the offset is looked up at the wall
\* clock read as UTC, and looked up again when that lands in another period
GoDate(wall, loc) ==
    LET offset == ZoneOffset(loc, wall)
        utc == wall - offset
    IN IF offset = 0 THEN Time(wall, loc)
       ELSE IF utc < ZoneStart(loc, wall) \/ utc >= ZoneEnd(loc, wall)
       THEN Time(wall - ZoneOffset(loc, utc), loc)
       ELSE Time(utc, loc)

\* a date string: its form ("colon": with an offset like -07:00, "Z": with
\* a Z, "nocolon": with an offset like -0700, "bare": with no zone, "junk":
\* anything else), its wall-clock fields and its offset
DateStr(form, wall, off) == [form |-> form, wall |-> wall, off |-> off]

\* the forms each layout of ParseDateTime accepts
Accepts(layout) ==
    CASE layout = "2006-01-02T15:04:05Z07:00" -> {"colon", "Z"}
      [] layout = "2006-01-02T15:04:05Z" -> {"Z"}
      [] layout = "2006-01-02T15:04:05-0700" -> {"nocolon"}
      [] layout = "2006-01-02T15:04:05" -> {"bare"}

\* time.Parse(layout, d) for a d the layout accepts: a string with a Z or
\* with no zone is UTC; one with an offset is Local when Local has that
\* offset at that instant, and a fixed zone otherwise
GoParse(layout, d) ==
    IF d.form \in {"Z", "bare"} THEN Time(d.wall, UTC)
    ELSE LET u == d.wall - d.off
         IN IF ZoneOffset(Local, u) = d.off THEN Time(u, Local)
            ELSE Time(u, FixedZone(d.off))

\* the offset the layout element -07:00 writes: hours and minutes, the
\* seconds of the offset dropped
LayoutOffset(off) ==
    IF off >= 0 THEN (off \div Minute) * Minute
    ELSE -(((-off) \div Minute) * Minute)

\* a format that writes the wall clock of the client's zone next to the
\* offset of the zone the time came in
FormatDateWithTZOwnOffset(t, tz) ==
    LET inTZ == In(t, tz)
    IN DateStr("colon", Wall(inTZ), LayoutOffset(ZoneOffset(t.loc, t.unix)))

\* FormatDateWithTZ: layout 2006-01-02T15:04:05-07:00 in the client's zone
FormatDateWithTZ(t, tz) ==
    LET inTZ == In(t, tz)
    IN DateStr("colon", Wall(inTZ), LayoutOffset(ZoneOffset(tz, t.unix)))

\* FormatDateWithoutTZ: layout 2006-01-02T15:04:05 in the client's zone
FormatDateWithoutTZ(t, tz) ==
    LET inTZ == In(t, tz)
    IN DateStr("bare", Wall(inTZ), 0)

\* the outcome of a parse
Parsed(t) == [ok |-> TRUE, t |-> t, input |-> DateStr("", 0, 0)]

NotParsed(d) == [ok |-> FALSE, t |-> Time(0, UTC), input |-> d]

\* ParseDateTime of the basic-auth client: the four layouts in turn, the
\* last one re-read in the client's zone
EwsParseDateTime(d, tz) ==
    IF d.form \in Accepts("2006-01-02T15:04:05Z07:00")
    THEN Parsed(GoParse("2006-01-02T15:04:05Z07:00", d))
    ELSE IF d.form \in Accepts("2006-01-02T15:04:05Z")
    THEN Parsed(GoParse("2006-01-02T15:04:05Z", d))
    ELSE IF d.form \in Accepts("2006-01-02T15:04:05-0700")
    THEN Parsed(GoParse("2006-01-02T15:04:05-0700", d))
    ELSE IF d.form \in Accepts("2006-01-02T15:04:05")
    THEN Parsed(GoDate(Wall(GoParse("2006-01-02T15:04:05", d)), tz))
    ELSE NotParsed(d)

\* ParseDateTime of the impersonation client: three layouts in turn, a
\* result that carries a zone converted into the client's zone, a bare one
\* re-read in the client's zone
ImpParseDateTime(d, tz) ==
    IF d.form \in Accepts("2006-01-02T15:04:05Z07:00")
    THEN Parsed(In(GoParse("2006-01-02T15:04:05Z07:00", d), tz))
    ELSE IF d.form \in Accepts("2006-01-02T15:04:05Z")
    THEN Parsed(In(GoParse("2006-01-02T15:04:05Z", d), tz))
    ELSE IF d.form \in Accepts("2006-01-02T15:04:05")
    THEN Parsed(GoDate(Wall(GoParse("2006-01-02T15:04:05", d)), tz))
    ELSE NotParsed(d)

\* ------------------------------------------------------------------------
\* The HTTP exchange and the errors of the repository operations
\* ------------------------------------------------------------------------

StatusOK == 200

\* the statuses the server answers with
Statuses == {StatusOK, 500}

\* an error value: its kind and what it carries (NoError as kind: nil)
Err(kind, status, body, code) ==
    [kind |-> kind, status |-> status, body |-> body, code |-> code]

NilErr == Err(NoError, 0, "", "")

\* a response body: the raw text, whether it is well-formed XML, and what
\* unmarshalling it yields (response class, response code, items)
Body(raw, xmlOk, class, code, items) ==
    [raw |-> raw, xmlOk |-> xmlOk, class |-> class, code |-> code,
     items |-> items]

\* the outcomes of httpClient.Do followed by io.ReadAll: the send fails, or
\* a response with a status arrives whose body can or cannot be read
HttpOutcomes(itemLists) ==
    {[sent |-> FALSE, status |-> 0, readOk |-> FALSE,
      body |-> Body("", FALSE, "", "", << >>)]}
    \cup
    {[sent |-> TRUE, status |-> st, readOk |-> rd,
      body |-> Body("fault", TRUE, "Success", "NoError", << >>)] :
        st \in Statuses \ {StatusOK}, rd \in BOOLEAN}
    \cup
    {[sent |-> TRUE, status |-> StatusOK, readOk |-> FALSE,
      body |-> Body("envelope", TRUE, "Success", "NoError", << >>)]}
    \cup
    {[sent |-> TRUE, status |-> StatusOK, readOk |-> TRUE,
      body |-> Body("junk", FALSE, "", "", << >>)]}
    \cup
    {[sent |-> TRUE, status |-> StatusOK, readOk |-> TRUE,
      body |-> Body("envelope", TRUE, cl, co, il)] :
        cl \in {"Success", "Error"},
        co \in {"NoError", "ErrorItemNotFound"}, il \in itemLists}

\* ------------------------------------------------------------------------
\* getToken
\* ------------------------------------------------------------------------

\* the responses of workmail.Client.AssumeImpersonationRole to call number n
AssumeResponses(n) ==
    {[err |-> TRUE, Token |-> Nil, ExpiresIn |-> Nil]} \cup
    [err : {FALSE}, Token : {Nil, n}, ExpiresIn : {Nil} \cup Lifetimes]

\* the cache test with Before and After confused
TokenFreshInverted(tok, exp, t) ==
    tok # NoToken /\ ~(t < exp - tokenRefreshBuffer)

\* the cache test without the refresh buffer
TokenFreshNoBuffer(tok, exp, t) == tok # NoToken /\ t < exp

\* the cache test with a refresh buffer of one minute
TokenFreshOneMinute(tok, exp, t) == tok # NoToken /\ t < exp - 1 * Minute

\* the cache test with an inclusive comparison
TokenFreshInclusive(tok, exp, t) ==
    tok # NoToken /\ t <= exp - tokenRefreshBuffer

\* c.currentToken != nil && time.Now().Before(c.tokenExpiry.Add(-tokenRefreshBuffer))
TokenFresh(tok, exp, t) == tok # NoToken /\ t < exp - tokenRefreshBuffer

\* the error getToken returns for a response, NoError when it is usable
RefreshError(resp) ==
    IF resp.err THEN "TokenAcquisitionError"
    ELSE IF resp.Token = Nil \/ resp.ExpiresIn = Nil
         THEN "MalformedTokenResponseError"
         ELSE NoError

\* a refresh that blanks the slot when it fails
RefreshSlotClearOnError(tok, exp, resp, t) ==
    IF RefreshError(resp) = NoError
    THEN [token |-> resp.Token, expiry |-> t + resp.ExpiresIn * Second]
    ELSE [token |-> NoToken, expiry |-> 0]

\* a refresh that stores the new token and leaves the expiry of the old one
RefreshSlotTokenOnly(tok, exp, resp, t) ==
    IF RefreshError(resp) = NoError
    THEN [token |-> resp.Token, expiry |-> exp]
    ELSE [token |-> tok, expiry |-> exp]

\* the token slot after getToken has handled a response at time t
RefreshSlot(tok, exp, resp, t) ==
    IF RefreshError(resp) = NoError
    THEN [token |-> resp.Token, expiry |-> t + resp.ExpiresIn * Second]
    ELSE [token |-> tok, expiry |-> exp]

NoReturn == [token |-> NoToken, err |-> NoError]

NoHist == [during |-> 0, called |-> 0, sawFresh |-> FALSE]

\* an AssumeImpersonationRole call that has not returned
Pending == [resp |-> [err |-> FALSE, Token |-> Nil, ExpiresIn |-> Nil],
            err |-> "pending", expiry |-> 0]

\* the AssumeImpersonationRole call in flight, 0 when there is none
InFlight == IF \E q \in Callers : pc[q] = "assume" THEN awsCalls ELSE 0

\* a new client: NewImpersonationClientWithAWSConfig leaves the slot empty
TokenInit ==
    /\ now = 0
    /\ currentToken = NoToken
    /\ tokenExpiry = 0
    /\ tokenLock = Unlocked
    /\ pc = [p \in Callers |-> "idle"]
    /\ ret = [p \in Callers |-> NoReturn]
    /\ hist = [p \in Callers |-> NoHist]
    /\ awsCalls = 0
    /\ grants = [n \in 1..MaxAwsCalls |-> Pending]
    /\ invocations = 0

\* a caller enters getToken and blocks on c.tokenLock.Lock()
GetTokenCall(p) ==
    /\ pc[p] \in {"idle", "done"}
    /\ invocations < MaxInvocations
    /\ invocations' = invocations + 1
    /\ pc' = [pc EXCEPT ![p] = "lock"]
    /\ ret' = [ret EXCEPT ![p] = NoReturn]
    /\ hist' = [hist EXCEPT ![p] = [NoHist EXCEPT !.during = InFlight]]
    /\ UNCHANGED <<now, currentToken, tokenExpiry, tokenLock, awsCalls, grants,
                   otherVars>>

\* at its cache test, the refresh a caller overlapped had succeeded and the
\* token it stored is still outside the refresh buffer
OverlapFresh(p) ==
    LET r == hist[p].during
    IN r # 0 /\ grants[r].err = NoError
             /\ now < grants[r].expiry - tokenRefreshBuffer

\* a Lock that never blocks
LockFreeAlways(p) == TRUE

\* c.tokenLock.Lock() succeeds
LockFree(p) == tokenLock = Unlocked

\* an Unlock that is skipped when getToken returns an error
UnlockOnSuccess(p, err) == IF err = NoError THEN Unlocked ELSE p

\* defer c.tokenLock.Unlock(): the lock after getToken has returned,
\* whatever it returns
DeferredUnlock(p, err) == Unlocked

GetTokenLock(p) ==
    /\ pc[p] = "lock"
    /\ LockFree(p)
    /\ tokenLock' = p
    /\ pc' = [pc EXCEPT ![p] = "check"]
    /\ UNCHANGED <<now, currentToken, tokenExpiry, ret, hist, awsCalls, grants,
                   invocations, otherVars>>

\* the cache test; a hit returns (and the deferred Unlock runs), a miss
\* issues the AssumeImpersonationRole call
GetTokenCheck(p) ==
    /\ pc[p] = "check"
    /\ IF TokenFresh(currentToken, tokenExpiry, now)
       THEN /\ ret' = [ret EXCEPT ![p] =
                         [token |-> currentToken, err |-> NoError]]
            /\ pc' = [pc EXCEPT ![p] = "done"]
            /\ tokenLock' = DeferredUnlock(p, NoError)
            /\ hist' = [hist EXCEPT ![p].sawFresh = OverlapFresh(p)]
            /\ UNCHANGED awsCalls
       ELSE /\ awsCalls < MaxAwsCalls
            /\ awsCalls' = awsCalls + 1
            /\ pc' = [pc EXCEPT ![p] = "assume"]
            /\ hist' = [hist EXCEPT ![p].sawFresh = OverlapFresh(p),
                                    ![p].called = awsCalls + 1]
            /\ UNCHANGED <<ret, tokenLock>>
    /\ UNCHANGED <<now, currentToken, tokenExpiry, grants, invocations, otherVars>>

\* AssumeImpersonationRole returns; getToken stores or fails, returns, and
\* the deferred Unlock runs
GetTokenAssumeReturn(p) ==
    /\ pc[p] = "assume"
    /\ \E resp \in AssumeResponses(hist[p].called) :
         LET slot == RefreshSlot(currentToken, tokenExpiry, resp, now)
             e == RefreshError(resp)
         IN /\ currentToken' = slot.token
            /\ tokenExpiry' = slot.expiry
            /\ ret' = [ret EXCEPT ![p] =
                         [token |-> IF e = NoError THEN slot.token ELSE NoToken,
                          err |-> e]]
            /\ grants' = [grants EXCEPT ![hist[p].called] =
                             [resp |-> resp, err |-> e, expiry |-> slot.expiry]]
            /\ tokenLock' = DeferredUnlock(p, e)
    /\ pc' = [pc EXCEPT ![p] = "done"]
    /\ UNCHANGED <<now, hist, awsCalls, invocations, otherVars>>

\* the clock advances
Tick ==
    /\ \E d \in TickSteps : now + d <= MaxNow /\ now' = now + d
    /\ UNCHANGED <<currentToken, tokenExpiry, tokenLock, pc, ret, hist,
                   awsCalls, grants, invocations, otherVars>>

\* ------------------------------------------------------------------------
\* Repository operations of the impersonation client
\* ------------------------------------------------------------------------

\* the fields of EventUpdates; a patch is the set of its present fields
\* (a pointer that is not nil, an attendee list that is not empty)
Fields == {"Subject", "Body", "Start", "End", "Location", "LegacyFreeBusy",
           "RequiredAttendees", "OptionalAttendees"}

\* largest number of present fields in a patch that is not the full patch
MaxPatchFields == 1

Patches == {P \in SUBSET Fields : Cardinality(P) <= MaxPatchFields} \cup {Fields}

FieldURIOf(f) ==
    CASE f = "Subject" -> "item:Subject"
      [] f = "Body" -> "item:Body"
      [] f = "Start" -> "calendar:Start"
      [] f = "End" -> "calendar:End"
      [] f = "Location" -> "calendar:Location"
      [] f = "LegacyFreeBusy" -> "calendar:LegacyFreeBusyStatus"
      [] f = "RequiredAttendees" -> "calendar:RequiredAttendees"
      [] f = "OptionalAttendees" -> "calendar:OptionalAttendees"

\* the attendee lists tested for nil instead of for emptiness, so that an
\* empty list gets an operation too
SetItemFieldsEmptyLists(patch, order) ==
    LET present == SelectSeq(order,
                       LAMBDA f : f \in patch \cup {"RequiredAttendees",
                                                    "OptionalAttendees"})
    IN [i \in 1..Len(present) |->
          [FieldURI |-> FieldURIOf(present[i]), field |-> present[i]]]

\* the SetItemField operations appended for a patch, the fields being
\* tested in the given order
SetItemFields(patch, order) ==
    LET present == SelectSeq(order, LAMBDA f : f \in patch)
    IN [i \in 1..Len(present) |->
          [FieldURI |-> FieldURIOf(present[i]), field |-> present[i]]]

ImpFieldOrder == <<"Subject", "Body", "Start", "End", "Location",
                   "LegacyFreeBusy", "RequiredAttendees", "OptionalAttendees">>

\* the request kinds doRequest's type switch knows
SupportedKinds == {"FindItem", "CreateItem", "DeleteItem", "UpdateItem"}

SoapAction(kind) ==
    CASE kind = "FindItem" ->
           "http://schemas.microsoft.com/exchange/services/2006/messages/FindItem"
      [] kind = "CreateItem" ->
           "http://schemas.microsoft.com/exchange/services/2006/messages/CreateItem"
      [] kind = "UpdateItem" ->
           "http://schemas.microsoft.com/exchange/services/2006/messages/UpdateItem"
      [] kind = "DeleteItem" ->
           "http://schemas.microsoft.com/exchange/services/2006/messages/DeleteItem"
      [] OTHER -> "none"

\* a CalendarItem of a response: its id and its Start and End strings
CalendarItem(id, start, end) == [Id |-> id, Start |-> start, End |-> end]

\* the item lists a response carries in the runs of the operations
OpsItemLists ==
    {<< >>,
     <<CalendarItem("id1", DateStr("bare", 0, 0), DateStr("bare", 30 * Minute, 0)),
       CalendarItem("id2", DateStr("Z", 30 * Minute, 0), DateStr("Z", 60 * Minute, 0))>>}

\* a CalendarEvent handed to CreateCalendarEvent: its times and its
\* attendee lists
CalendarEvent(start, end, required, optional) ==
    [Start |-> start, End |-> end, RequiredAttendees |-> required,
     OptionalAttendees |-> optional]

\* the attendee element of a payload, a pointer: the empty sequence for nil
\* (left out of the XML), a sequence holding the list otherwise
AttendeesElement(list) == IF Len(list) > 0 THEN <<list>> ELSE << >>

\* the CreateEventCalendarItem both clients build, given the formatted
\* Start and End
CreateEventCalendarItem(event, startStr, endStr) ==
    [ReminderIsSet |-> TRUE, ReminderMinutes |-> 15,
     Start |-> startStr, End |-> endStr, LegacyFreeBusy |-> "Busy",
     RequiredAttendees |-> AttendeesElement(event.RequiredAttendees),
     OptionalAttendees |-> AttendeesElement(event.OptionalAttendees)]

\* what getToken needs from its surroundings: the slot, the time of the
\* cache test, the service's answer should it be asked, the time of storing
TokenEnv(tok, exp, t1, resp, t2) ==
    [tok |-> tok, exp |-> exp, t1 |-> t1, resp |-> resp, t2 |-> t2]

\* getToken as one call: what it returns, the slot it leaves, and the number
\* of AssumeImpersonationRole calls it made
getToken(te) ==
    IF TokenFresh(te.tok, te.exp, te.t1)
    THEN [token |-> te.tok, err |-> NoError,
          slot |-> [token |-> te.tok, expiry |-> te.exp], assumes |-> 0]
    ELSE LET e == RefreshError(te.resp)
             slot == RefreshSlot(te.tok, te.exp, te.resp, te.t2)
         IN [token |-> IF e = NoError THEN slot.token ELSE NoToken,
             err |-> e, slot |-> slot, assumes |-> 1]

\* the outcome of an operation: the error and value returned, the HTTP
\* POSTs issued, the identity-service calls made, whether the response was
\* handed to xml.Unmarshal, and the token slot left behind
Outcome(err, val, posts, assumes, unmarshalled, slot) ==
    [err |-> err, val |-> val, posts |-> posts, assumes |-> assumes,
     unmarshalled |-> unmarshalled, slot |-> slot]

\* the POST doRequest sends
ImpPost(token, soapAction, target, req) ==
    [auth |-> "Bearer", token |-> token, soapAction |-> soapAction,
     impersonate |-> target, request |-> req]

\* doRequest that retries the POST once on a status other than 200
doRequestRetry(te, soapAction, target, req, http) ==
    LET tk == getToken(te)
        post == ImpPost(tk.token, soapAction, target, req)
        out(err, posts, un) == Outcome(err, http.body, posts, tk.assumes, un, tk.slot)
    IN IF tk.err # NoError
       THEN out(Err("TokenError", 0, "", tk.err), << >>, FALSE)
       ELSE IF req.kind \notin SupportedKinds
       THEN out(Err("UnsupportedTypeError", 0, "", req.kind), << >>, FALSE)
       ELSE IF ~http.sent
       THEN out(Err("SendError", 0, "", ""), <<post>>, FALSE)
       ELSE IF ~http.readOk
       THEN out(Err("ReadError", 0, "", ""), <<post>>, FALSE)
       ELSE IF http.status # StatusOK
       THEN out(Err("TransportError", http.status, http.body.raw, ""),
                <<post, post>>, FALSE)
       ELSE IF ~http.body.xmlOk
       THEN out(Err("UnmarshalError", 0, http.body.raw, ""), <<post>>, TRUE)
       ELSE out(NilErr, <<post>>, TRUE)

\* doRequest that goes on to the POST when getToken has failed, with the
\* empty token getToken returned
doRequestIgnoreTokenError(te, soapAction, target, req, http) ==
    LET tk == getToken(te)
        post == ImpPost(tk.token, soapAction, target, req)
        out(err, posts, un) == Outcome(err, http.body, posts, tk.assumes, un, tk.slot)
    IN IF req.kind \notin SupportedKinds
       THEN out(Err("UnsupportedTypeError", 0, "", req.kind), << >>, FALSE)
       ELSE IF ~http.sent
       THEN out(Err("SendError", 0, "", ""), <<post>>, FALSE)
       ELSE IF ~http.readOk
       THEN out(Err("ReadError", 0, "", ""), <<post>>, FALSE)
       ELSE IF http.status # StatusOK
       THEN out(Err("TransportError", http.status, http.body.raw, ""),
                <<post>>, FALSE)
       ELSE IF ~http.body.xmlOk
       THEN out(Err("UnmarshalError", 0, http.body.raw, ""), <<post>>, TRUE)
       ELSE out(NilErr, <<post>>, TRUE)

\* doRequest: token, envelope for the request kind, one POST, status test,
\* unmarshalling.  val is the unmarshalled response.
doRequest(te, soapAction, target, req, http) ==
    LET tk == getToken(te)
        post == ImpPost(tk.token, soapAction, target, req)
        out(err, posts, un) == Outcome(err, http.body, posts, tk.assumes, un, tk.slot)
    IN IF tk.err # NoError
       THEN out(Err("TokenError", 0, "", tk.err), << >>, FALSE)
       ELSE IF req.kind \notin SupportedKinds
       THEN out(Err("UnsupportedTypeError", 0, "", req.kind), << >>, FALSE)
       ELSE IF ~http.sent
       THEN out(Err("SendError", 0, "", ""), <<post>>, FALSE)
       ELSE IF ~http.readOk
       THEN out(Err("ReadError", 0, "", ""), <<post>>, FALSE)
       ELSE IF http.status # StatusOK
       THEN out(Err("TransportError", http.status, http.body.raw, ""),
                <<post>>, FALSE)
       ELSE IF ~http.body.xmlOk
       THEN out(Err("UnmarshalError", 0, http.body.raw, ""), <<post>>, TRUE)
       ELSE out(NilErr, <<post>>, TRUE)

\* an operation's return: the error with no value, or the value with no error
Fail(d, err) == [d EXCEPT !.err = err, !.val = Nil]

Return(d, val) == [d EXCEPT !.err = NilErr, !.val = val]

\* the returns of CreateCalendarEvent, whose value is a pointer: the empty
\* sequence for nil, a sequence of one identity otherwise
FailNoId(d, err) == [d EXCEPT !.err = err, !.val = << >>]

ReturnId(d, id) == [d EXCEPT !.err = NilErr, !.val = <<id>>]

ImpGetCalendarItems(te, target, http) ==
    LET req == [kind |-> "FindItem", fields |-> << >>]
        d == doRequest(te, SoapAction("FindItem"), target, req, http)
    IN IF d.err # NilErr THEN Fail(d, d.err)
       ELSE IF d.val.code # "NoError"
       THEN Fail(d, Err("ProtocolError", 0, "", d.val.code))
       ELSE Return(d, d.val.items)

ImpCreateCalendarEvent(te, target, event, tz, http) ==
    LET calItem == CreateEventCalendarItem(event,
                                           FormatDateWithTZ(event.Start, tz),
                                           FormatDateWithTZ(event.End, tz))
        req == [kind |-> "CreateItem", fields |-> << >>, item |-> calItem]
        d == doRequest(te, SoapAction("CreateItem"), target, req, http)
    IN IF d.err # NilErr THEN FailNoId(d, d.err)
       ELSE IF d.val.class # "Success"
       THEN FailNoId(d, Err("ProtocolError", 0, "", d.val.class))
       ELSE IF Len(d.val.items) = 0
       THEN FailNoId(d, Err("MissingResultError", 0, "", ""))
       ELSE ReturnId(d, d.val.items[1].Id)

\* an update that sends whatever the patch holds, the empty patch included
ImpUpdateCalendarEventNoPreflight(te, target, patch, http) ==
    LET itemChanges == SetItemFields(patch, ImpFieldOrder)
        req == [kind |-> "UpdateItem", fields |-> itemChanges]
        d == doRequest(te, SoapAction("UpdateItem"), target, req, http)
    IN IF d.err # NilErr THEN Fail(d, d.err)
       ELSE IF d.val.class # "Success"
       THEN Fail(d, Err("ProtocolError", 0, "", d.val.class))
       ELSE Return(d, Nil)

ImpUpdateCalendarEvent(te, target, patch, http) ==
    LET itemChanges == SetItemFields(patch, ImpFieldOrder)
        req == [kind |-> "UpdateItem", fields |-> itemChanges]
        d == doRequest(te, SoapAction("UpdateItem"), target, req, http)
    IN IF Len(itemChanges) = 0
       THEN Outcome(Err("EmptyUpdateError", 0, "", ""), Nil, << >>, 0, FALSE,
                    [token |-> te.tok, expiry |-> te.exp])
       ELSE IF d.err # NilErr THEN Fail(d, d.err)
       ELSE IF d.val.class # "Success"
       THEN Fail(d, Err("ProtocolError", 0, "", d.val.class))
       ELSE Return(d, Nil)

ImpDeleteCalendarEvent(te, target, http) ==
    LET req == [kind |-> "DeleteItem", fields |-> << >>]
        d == doRequest(te, SoapAction("DeleteItem"), target, req, http)
    IN IF d.err # NilErr THEN Fail(d, d.err)
       ELSE IF d.val.class # "Success"
       THEN Fail(d, Err("ProtocolError", 0, "", d.val.class))
       ELSE Return(d, Nil)

\* doRequest handed a request body of a type its switch does not know
ImpDoRequestUnsupported(te, target, http) ==
    LET req == [kind |-> "Other", fields |-> << >>]
        d == doRequest(te, SoapAction("Other"), target, req, http)
    IN IF d.err # NilErr THEN Fail(d, d.err) ELSE Return(d, Nil)

\* ------------------------------------------------------------------------
\* Repository operations of the basic-auth client
\* ------------------------------------------------------------------------

EwsFieldOrder == <<"Start", "End", "Subject", "Body", "LegacyFreeBusy",
                   "Location", "RequiredAttendees", "OptionalAttendees">>

\* the basic-auth client has no token slot
NoSlot == [token |-> NoToken, expiry |-> 0]

\* the POST of the basic-auth client
EwsPost(req) ==
    [auth |-> "Basic", token |-> NoToken, soapAction |-> "none",
     impersonate |-> "", request |-> req]

\* the bytes io.ReadAll hands back
ReadBody(http) == IF http.readOk THEN http.body.raw ELSE "truncated"

\* the exchange every operation of the basic-auth client performs: one
\* POST, the status test, reading and unmarshalling the body
EwsExchange(req, http) ==
    LET post == EwsPost(req)
        out(err, un) == Outcome(err, http.body, <<post>>, 0, un, NoSlot)
    IN IF ~http.sent
       THEN out(Err("SendError", 0, "", ""), FALSE)
       ELSE IF http.status # StatusOK
       THEN out(Err("TransportError", http.status, ReadBody(http), ""), FALSE)
       ELSE IF ~http.readOk
       THEN out(Err("ReadError", 0, "", ""), FALSE)
       ELSE IF ~http.body.xmlOk
       THEN out(Err("UnmarshalError", 0, "", ""), TRUE)
       ELSE out(NilErr, TRUE)

EwsGetCalendarItems(startDate, endDate, tz, http) ==
    LET req == [kind |-> "FindItem",
                fields |-> <<FormatDateWithTZ(startDate, tz),
                             FormatDateWithTZ(endDate, tz)>>]
        d == EwsExchange(req, http)
    IN IF d.err # NilErr THEN Fail(d, d.err)
       ELSE IF d.val.code # "NoError"
       THEN Fail(d, Err("ProtocolError", 0, "", d.val.code))
       ELSE Return(d, d.val.items)

\* a create that reads the items without testing the response class
EwsCreateCalendarEventNoClassCheck(event, tz, http) ==
    LET startStr == FormatDateWithoutTZ(event.Start, tz)
        endStr == FormatDateWithoutTZ(event.End, tz)
        req == [kind |-> "CreateItem", fields |-> << >>,
                item |-> CreateEventCalendarItem(event, startStr, endStr)]
        d == EwsExchange(req, http)
    IN IF d.err # NilErr THEN FailNoId(d, d.err)
       ELSE IF Len(d.val.items) > 0
       THEN ReturnId(d, d.val.items[1].Id)
       ELSE FailNoId(d, Err("MissingResultError", 0, "", ""))

EwsCreateCalendarEvent(event, tz, http) ==
    LET startStr == FormatDateWithoutTZ(event.Start, tz)
        endStr == FormatDateWithoutTZ(event.End, tz)
        req == [kind |-> "CreateItem", fields |-> << >>,
                item |-> CreateEventCalendarItem(event, startStr, endStr)]
        d == EwsExchange(req, http)
    IN IF d.err # NilErr THEN FailNoId(d, d.err)
       ELSE IF d.val.class # "Success"
       THEN FailNoId(d, Err("ProtocolError", 0, "", d.val.code))
       ELSE IF Len(d.val.items) > 0
       THEN ReturnId(d, d.val.items[1].Id)
       ELSE FailNoId(d, Err("MissingResultError", 0, "", ""))

\* DeleteCalendarEvent returns after the status test: the body is neither
\* read nor unmarshalled
EwsDeleteCalendarEvent(http) ==
    LET req == [kind |-> "DeleteItem", fields |-> << >>]
        post == EwsPost(req)
        out(err) == Outcome(err, Nil, <<post>>, 0, FALSE, NoSlot)
    IN IF ~http.sent
       THEN out(Err("SendError", 0, "", ""))
       ELSE IF http.status # StatusOK
       THEN out(Err("TransportError", http.status, ReadBody(http), ""))
       ELSE out(NilErr)

\* an update that refuses a patch with no present field before sending
EwsUpdateCalendarEventPreflight(patch, http) ==
    LET req == [kind |-> "UpdateItem",
                fields |-> SetItemFields(patch, EwsFieldOrder)]
        d == EwsExchange(req, http)
    IN IF Len(req.fields) = 0
       THEN Outcome(Err("EmptyUpdateError", 0, "", ""), Nil, << >>, 0, FALSE,
                    NoSlot)
       ELSE IF d.err # NilErr THEN Fail(d, d.err)
       ELSE IF d.val.class # "Success"
       THEN Fail(d, Err("ProtocolError", 0, "", d.val.code))
       ELSE Return(d, Nil)

EwsUpdateCalendarEvent(patch, http) ==
    LET req == [kind |-> "UpdateItem",
                fields |-> SetItemFields(patch, EwsFieldOrder)]
        d == EwsExchange(req, http)
    IN IF d.err # NilErr THEN Fail(d, d.err)
       ELSE IF d.val.class # "Success"
       THEN Fail(d, Err("ProtocolError", 0, "", d.val.code))
       ELSE Return(d, Nil)

\* ------------------------------------------------------------------------
\* Availability queries of the basic-auth client
\* ------------------------------------------------------------------------

\* a TimeSlot
TimeSlot(start, end) == [Start |-> start, End |-> end]

\* the overlap test with the boundaries counted in
OverlapsInclusive(eventStart, eventEnd, slot) ==
    ~After(eventStart, slot.End) /\ ~Before(eventEnd, slot.Start)

\* eventStart.Before(slot.End) && eventEnd.After(slot.Start)
Overlaps(eventStart, eventEnd, slot) ==
    Before(eventStart, slot.End) /\ After(eventEnd, slot.Start)

\* what CheckSlotAvailability returns
SlotResult(available, conflicts, err) ==
    [available |-> available, conflicts |-> conflicts, err |-> err]

\* a loop that hands back the conflicts found so far next to a parse error
RECURSIVE ConflictLoopPartial(_, _, _, _, _)
ConflictLoopPartial(items, i, conflicts, slot, tz) ==
    IF i > Len(items)
    THEN SlotResult(Len(conflicts) = 0, conflicts, NilErr)
    ELSE LET eventStart == EwsParseDateTime(items[i].Start, tz)
             eventEnd == EwsParseDateTime(items[i].End, tz)
         IN IF ~eventStart.ok
            THEN SlotResult(FALSE, conflicts,
                            Err("DateFormatError", 0, "", "Start"))
            ELSE IF ~eventEnd.ok
            THEN SlotResult(FALSE, conflicts,
                            Err("DateFormatError", 0, "", "End"))
            ELSE ConflictLoopPartial(items, i + 1,
                              IF Overlaps(eventStart.t, eventEnd.t, slot)
                              THEN Append(conflicts, items[i])
                              ELSE conflicts,
                              slot, tz)

\* the loop of CheckSlotAvailability from item i on, conflicts being the
\* items appended so far
RECURSIVE ConflictLoop(_, _, _, _, _)
ConflictLoop(items, i, conflicts, slot, tz) ==
    IF i > Len(items)
    THEN SlotResult(Len(conflicts) = 0, conflicts, NilErr)
    ELSE LET eventStart == EwsParseDateTime(items[i].Start, tz)
             eventEnd == EwsParseDateTime(items[i].End, tz)
         IN IF ~eventStart.ok
            THEN SlotResult(FALSE, << >>, Err("DateFormatError", 0, "", "Start"))
            ELSE IF ~eventEnd.ok
            THEN SlotResult(FALSE, << >>, Err("DateFormatError", 0, "", "End"))
            ELSE ConflictLoop(items, i + 1,
                              IF Overlaps(eventStart.t, eventEnd.t, slot)
                              THEN Append(conflicts, items[i])
                              ELSE conflicts,
                              slot, tz)

\* CheckSlotAvailability: fetch is the outcome of its GetCalendarItems call
CheckSlotAvailability(slot, tz, http) ==
    LET startTime == Add(slot.Start, -1 * Minute)
        endTime == Add(slot.End, 1 * Minute)
        fetch == EwsGetCalendarItems(startTime, endTime, tz, http)
        items == fetch.val
        res == IF fetch.err # NilErr
               THEN SlotResult(FALSE, << >>, fetch.err)
               ELSE IF Len(items) = 0
               THEN SlotResult(TRUE, << >>, NilErr)
               ELSE ConflictLoop(items, 1, << >>, slot, tz)
    IN [res |-> res, fetch |-> fetch]

\* an event of GetAvailableSlots: the parsed Start and End of an item
Event(start, end) == [Start |-> start, End |-> end]

\* what GetAvailableSlots returns
SlotsResult(slots, err) == [slots |-> slots, err |-> err]

\* the first loop of GetAvailableSlots from item i on: each item's Start and
\* End parsed and appended to events, the first parse error returned
RECURSIVE ParseEventsFrom(_, _, _, _)
ParseEventsFrom(items, i, events, tz) ==
    IF i > Len(items)
    THEN [events |-> events, err |-> NilErr]
    ELSE LET eventStart == EwsParseDateTime(items[i].Start, tz)
             eventEnd == EwsParseDateTime(items[i].End, tz)
         IN IF ~eventStart.ok
            THEN [events |-> << >>,
                  err |-> Err("DateFormatError", 0, "", "Start")]
            ELSE IF ~eventEnd.ok
            THEN [events |-> << >>,
                  err |-> Err("DateFormatError", 0, "", "End")]
            ELSE ParseEventsFrom(items, i + 1,
                                 Append(events, Event(eventStart.t, eventEnd.t)),
                                 tz)

\* e put into the sorted sequence es before the first event starting later
RECURSIVE InsertByStart(_, _)
InsertByStart(es, e) ==
    IF es = << >> THEN <<e>>
    ELSE IF Before(e.Start, Head(es).Start) THEN <<e>> \o es
    ELSE <<Head(es)>> \o InsertByStart(Tail(es), e)

RECURSIVE SortByStart(_)
SortByStart(es) ==
    IF es = << >> THEN << >>
    ELSE InsertByStart(SortByStart(SubSeq(es, 1, Len(es) - 1)), es[Len(es)])

\* the events sorted by start time before the scan
ParseEventsSorted(items, tz) ==
    LET r == ParseEventsFrom(items, 1, << >>, tz)
    IN [events |-> SortByStart(r.events), err |-> r.err]

\* the events of the items, in the order of the items (the sort is a
\* comment in the source)
ParseEvents(items, tz) == ParseEventsFrom(items, 1, << >>, tz)

\* currentTime moved to the end of the event whatever it was
AdvanceAlways(currentTime, event) == event.End

\* currentTime moved to the start of the event instead of its end
AdvanceToStart(currentTime, event) ==
    IF After(event.Start, currentTime) THEN event.Start ELSE currentTime

\* if event.End.After(currentTime) { currentTime = event.End }
Advance(currentTime, event) ==
    IF After(event.End, currentTime) THEN event.End ELSE currentTime

\* a scan that keeps the gap after the last event whenever the period ends
\* after the cursor, however short the gap
RECURSIVE ScanEventsAnyFinalGap(_, _, _, _, _, _)
ScanEventsAnyFinalGap(events, i, currentTime, availableSlots, endTime, slotDuration) ==
    IF i > Len(events)
    THEN IF After(endTime, currentTime)
         THEN Append(availableSlots, TimeSlot(currentTime, endTime))
         ELSE availableSlots
    ELSE ScanEventsAnyFinalGap(events, i + 1, Advance(currentTime, events[i]),
                    IF Sub(events[i].Start, currentTime) >= slotDuration
                    THEN Append(availableSlots,
                                TimeSlot(currentTime, events[i].Start))
                    ELSE availableSlots,
                    endTime, slotDuration)

\* the scan of GetAvailableSlots from event i on
RECURSIVE ScanEvents(_, _, _, _, _, _)
ScanEvents(events, i, currentTime, availableSlots, endTime, slotDuration) ==
    IF i > Len(events)
    THEN IF Sub(endTime, currentTime) >= slotDuration
         THEN Append(availableSlots, TimeSlot(currentTime, endTime))
         ELSE availableSlots
    ELSE ScanEvents(events, i + 1, Advance(currentTime, events[i]),
                    IF Sub(events[i].Start, currentTime) >= slotDuration
                    THEN Append(availableSlots,
                                TimeSlot(currentTime, events[i].Start))
                    ELSE availableSlots,
                    endTime, slotDuration)

\* GetAvailableSlots with no early return for an empty list
GetAvailableSlotsNoShortcut(startTime, endTime, slotDuration, tz, http) ==
    LET fetch == EwsGetCalendarItems(startTime, endTime, tz, http)
        parsed == ParseEvents(fetch.val, tz)
        res == IF fetch.err # NilErr THEN SlotsResult(<< >>, fetch.err)
               ELSE IF parsed.err # NilErr THEN SlotsResult(<< >>, parsed.err)
               ELSE SlotsResult(ScanEvents(parsed.events, 1, startTime, << >>,
                                           endTime, slotDuration), NilErr)
    IN [res |-> res, fetch |-> fetch]

\* GetAvailableSlots: fetch is the outcome of its GetCalendarItems call
GetAvailableSlots(startTime, endTime, slotDuration, tz, http) ==
    LET fetch == EwsGetCalendarItems(startTime, endTime, tz, http)
        items == fetch.val
        parsed == ParseEvents(items, tz)
        res == IF fetch.err # NilErr THEN SlotsResult(<< >>, fetch.err)
               ELSE IF Len(items) = 0
               THEN SlotsResult(<<TimeSlot(startTime, endTime)>>, NilErr)
               ELSE IF parsed.err # NilErr THEN SlotsResult(<< >>, parsed.err)
               ELSE SlotsResult(ScanEvents(parsed.events, 1, startTime, << >>,
                                           endTime, slotDuration), NilErr)
    IN [res |-> res, fetch |-> fetch]

\* ------------------------------------------------------------------------
\* The operations as steps of a run
\* ------------------------------------------------------------------------

\* the mailboxes operated on
Mailboxes == {"user@example.com", "room@example.com"}

NoResp == [err |-> FALSE, Token |-> Nil, ExpiresIn |-> Nil]

NoHttp == [sent |-> FALSE, status |-> 0, readOk |-> FALSE,
           body |-> Body("", FALSE, "", "", << >>)]

\* the events handed to CreateCalendarEvent: 00:30-01:00, with and without
\* attendees of either kind
Events ==
    {CalendarEvent(Time(30 * Minute, UTC), Time(60 * Minute, UTC), r, o) :
        r, o \in {<< >>, <<"a@example.com">>}}

NoEvent == CalendarEvent(Time(0, UTC), Time(0, UTC), << >>, << >>)

\* the name handed to SetTimezone or NewClientWithTimezone, and the
\* timezone of the client before the call
ZoneCall(name, before) == [name |-> name, before |-> before]

NoZoneCall == ZoneCall("", UTC)

NoOp == [client |-> "", kind |-> "", target |-> "", patch |-> {},
         event |-> NoEvent,
         zone |-> NoZoneCall, resp |-> NoResp,
         http |-> NoHttp, out |-> Outcome(NilErr, Nil, << >>, 0, FALSE, NoSlot)]

\* no date conversion has been called yet
NoDate == [call |-> "", client |-> "", t |-> Time(0, UTC),
           input |-> DateStr("", 0, 0), parsed |-> NotParsed(DateStr("", 0, 0))]

\* the calls that set a client's timezone
ZoneKinds == {"SetTimezone", "NewClientWithTimezone"}

\* nothing has been called on the client yet
Idle == op.kind = ""

\* no repository operation has been called on the client yet
Configuring == op.kind \in {""} \cup ZoneKinds

\* the answers the identity service can give the next call; it is asked
\* only when the cached token is not fresh
AssumeAnswers ==
    IF TokenFresh(currentToken, tokenExpiry, now)
    THEN {NoResp}
    ELSE AssumeResponses(awsCalls + 1)

\* the times at which a call that started now can come back
Later == {now} \cup {now + d : d \in {e \in TickSteps : now + e <= MaxNow}}

\* an operation of the impersonation client has run to its return
ImpDoneWith(kind, target, patch, event, resp, http, t2, out) ==
    /\ out.assumes = 1 => awsCalls < MaxAwsCalls
    /\ op' = [client |-> "impersonation", kind |-> kind, target |-> target,
              patch |-> patch, event |-> event, zone |-> NoZoneCall,
              resp |-> IF out.assumes = 1 THEN resp ELSE NoResp,
              http |-> IF out.posts # << >> THEN http ELSE NoHttp,
              out |-> out]
    /\ currentToken' = out.slot.token
    /\ tokenExpiry' = out.slot.expiry
    /\ awsCalls' = awsCalls + out.assumes
    /\ now' = IF out.assumes = 1 THEN t2 ELSE now
    /\ UNCHANGED <<tokenLock, pc, ret, hist, grants, invocations, TimeZone,
                   avail, date, conc>>

ImpDone(kind, target, patch, resp, http, t2, out) ==
    ImpDoneWith(kind, target, patch, NoEvent, resp, http, t2, out)

\* an operation of the basic-auth client has run to its return
EwsDoneWith(kind, patch, event, http, out) ==
    /\ op' = [client |-> "basic", kind |-> kind, target |-> "",
              patch |-> patch, event |-> event, zone |-> NoZoneCall, resp |-> NoResp,
              http |-> http, out |-> out]
    /\ UNCHANGED <<tokenVars, TimeZone, avail, date, conc>>

EwsDone(kind, patch, http, out) == EwsDoneWith(kind, patch, NoEvent, http, out)

CallImpGetCalendarItems ==
    /\ Idle
    /\ \E resp \in AssumeAnswers, t2 \in Later, m \in Mailboxes,
          http \in HttpOutcomes(OpsItemLists) :
        LET te == TokenEnv(currentToken, tokenExpiry, now, resp, t2)
        IN ImpDone("FindItem", m, {}, resp, http, t2,
                   ImpGetCalendarItems(te, m, http))

CallImpCreateCalendarEvent ==
    /\ Idle
    /\ \E resp \in AssumeAnswers, t2 \in Later, m \in Mailboxes,
          http \in HttpOutcomes(OpsItemLists), event \in Events :
        LET te == TokenEnv(currentToken, tokenExpiry, now, resp, t2)
        IN ImpDoneWith("CreateItem", m, {}, event, resp, http, t2,
                       ImpCreateCalendarEvent(te, m, event, TimeZone, http))

CallImpUpdateCalendarEvent ==
    /\ Idle
    /\ \E resp \in AssumeAnswers, t2 \in Later, m \in Mailboxes,
          http \in HttpOutcomes(OpsItemLists), patch \in Patches :
        LET te == TokenEnv(currentToken, tokenExpiry, now, resp, t2)
        IN ImpDone("UpdateItem", m, patch, resp, http, t2,
                   ImpUpdateCalendarEvent(te, m, patch, http))

CallImpDeleteCalendarEvent ==
    /\ Idle
    /\ \E resp \in AssumeAnswers, t2 \in Later, m \in Mailboxes,
          http \in HttpOutcomes(OpsItemLists) :
        LET te == TokenEnv(currentToken, tokenExpiry, now, resp, t2)
        IN ImpDone("DeleteItem", m, {}, resp, http, t2,
                   ImpDeleteCalendarEvent(te, m, http))

CallImpDoRequestUnsupported ==
    /\ Idle
    /\ \E resp \in AssumeAnswers, t2 \in Later, m \in Mailboxes,
          http \in HttpOutcomes(OpsItemLists) :
        LET te == TokenEnv(currentToken, tokenExpiry, now, resp, t2)
        IN ImpDone("Other", m, {}, resp, http, t2,
                   ImpDoRequestUnsupported(te, m, http))

CallEwsGetCalendarItems ==
    /\ Idle
    /\ \E http \in HttpOutcomes(OpsItemLists) :
        EwsDone("FindItem", {}, http,
                EwsGetCalendarItems(Time(0, UTC), Time(60 * Minute, UTC),
                                    TimeZone, http))

CallEwsCreateCalendarEvent ==
    /\ Idle
    /\ \E http \in HttpOutcomes(OpsItemLists), event \in Events :
        EwsDoneWith("CreateItem", {}, event, http,
                    EwsCreateCalendarEvent(event, TimeZone, http))

CallEwsUpdateCalendarEvent ==
    /\ Idle
    /\ \E http \in HttpOutcomes(OpsItemLists), patch \in Patches :
        EwsDone("UpdateItem", patch, http, EwsUpdateCalendarEvent(patch, http))

CallEwsDeleteCalendarEvent ==
    /\ Idle
    /\ \E http \in HttpOutcomes(OpsItemLists) :
        EwsDone("DeleteItem", {}, http, EwsDeleteCalendarEvent(http))

\* a timezone call has run to its return
ZoneDone(client, kind, name, err, val, tz) ==
    /\ op' = [NoOp EXCEPT !.client = client, !.kind = kind,
                          !.zone = ZoneCall(name, TimeZone),
                          !.out.err = Err(err, 0, "", name),
                          !.out.val = val]
    /\ TimeZone' = tz
    /\ UNCHANGED <<tokenVars, avail, date, conc>>

CallSetTimezone ==
    /\ Configuring
    /\ \E client \in {"basic", "impersonation"}, name \in ZoneNames :
         LET r == SetTimezone(TimeZone, name)
         IN ZoneDone(client, "SetTimezone", name, r.err, << >>, r.tz)

\* a new basic-auth client takes the place of the one in use when
\* NewClientWithTimezone returns one
CallNewClientWithTimezone ==
    /\ Configuring
    /\ \E name \in ZoneNames :
         LET r == NewClientWithTimezone(name)
         IN ZoneDone("basic", "NewClientWithTimezone", name, r.err, r.client,
                     IF r.client = << >> THEN TimeZone
                     ELSE r.client[1].TimeZone)

OpsNext ==
    \/ CallSetTimezone
    \/ CallNewClientWithTimezone
    \/ CallImpGetCalendarItems
    \/ CallImpCreateCalendarEvent
    \/ CallImpUpdateCalendarEvent
    \/ CallImpDeleteCalendarEvent
    \/ CallImpDoRequestUnsupported
    \/ CallEwsGetCalendarItems
    \/ CallEwsCreateCalendarEvent
    \/ CallEwsUpdateCalendarEvent
    \/ CallEwsDeleteCalendarEvent

\* ------------------------------------------------------------------------
\* Operations of one impersonation client run by concurrent goroutines
\* ------------------------------------------------------------------------

\* largest number of calls one goroutine makes
MaxCallsEach == 1

\* a goroutine inside SetTimezone or GetCalendarItems: its position, the
\* call it is in and how many it has made, the location SetTimezone is about
\* to store, the values a read of c.timeZone can yield (no lock orders
\* the reads after the writes of the other goroutines), the two date strings
\* formatted so far, and the error returned
Goroutine(pc0, kind, calls, loc, may, startStr, endStr, err) ==
    [pc |-> pc0, kind |-> kind, calls |-> calls, loc |-> loc, may |-> may,
     startStr |-> startStr, endStr |-> endStr, err |-> err]

NoGoroutine ==
    Goroutine("idle", "", 0, UTC, {}, DateStr("", 0, 0), DateStr("", 0, 0), "")

NoConc == [p \in Callers |-> NoGoroutine]

\* the goroutine can start a call
CanCall(p) == conc[p].pc \in {"idle", "done"} /\ conc[p].calls < MaxCallsEach

\* the positions at which GetCalendarItems has a read of c.timeZone ahead
ReadAhead == {"formatStart", "formatEnd"}

\* the period GetCalendarItems is called with: 00:00-01:00
SearchStart == Time(0, UTC)

SearchEnd == Time(60 * Minute, UTC)

\* SetTimezone up to its assignment: time.LoadLocation and the error test
SetTimezoneLoad(p) ==
    /\ CanCall(p)
    /\ \E name \in ZoneNames :
         LET r == SetTimezone(TimeZone, name)
         IN conc' = [conc EXCEPT ![p] =
                Goroutine(IF r.err = "" THEN "store" ELSE "done", "SetTimezone",
                          conc[p].calls + 1, r.tz, {}, DateStr("", 0, 0),
                          DateStr("", 0, 0), r.err)]
    /\ UNCHANGED <<tokenVars, op, TimeZone, avail, date>>

\* c.timeZone = loc, with no lock held: the goroutines that have a read of
\* c.timeZone ahead can see the new value or an older one
SetTimezoneStore(p) ==
    /\ conc[p].pc = "store"
    /\ TimeZone' = conc[p].loc
    /\ conc' = [q \in Callers |->
                  IF q = p THEN [conc[q] EXCEPT !.pc = "done"]
                  ELSE IF conc[q].pc \in ReadAhead
                  THEN [conc[q] EXCEPT !.may = @ \cup {conc[p].loc}]
                  ELSE conc[q]]
    /\ UNCHANGED <<tokenVars, op, avail, date>>

\* GetCalendarItems is entered
GetCalendarItemsBegin(p) ==
    /\ CanCall(p)
    /\ conc' = [conc EXCEPT ![p] =
           Goroutine("formatStart", "GetCalendarItems", conc[p].calls + 1, UTC,
                     {TimeZone}, DateStr("", 0, 0), DateStr("", 0, 0), "")]
    /\ UNCHANGED <<tokenVars, op, TimeZone, avail, date>>

\* startDateStr := c.FormatDateWithTZ(startDate)
GetCalendarItemsFormatStart(p) ==
    /\ conc[p].pc = "formatStart"
    /\ \E tz \in conc[p].may :
         conc' = [conc EXCEPT ![p].pc = "formatEnd",
                              ![p].startStr = FormatDateWithTZ(SearchStart, tz)]
    /\ UNCHANGED <<tokenVars, op, TimeZone, avail, date>>

\* endDateStr := c.FormatDateWithTZ(endDate)
GetCalendarItemsFormatEnd(p) ==
    /\ conc[p].pc = "formatEnd"
    /\ \E tz \in conc[p].may :
         conc' = [conc EXCEPT ![p].pc = "request",
                              ![p].endStr = FormatDateWithTZ(SearchEnd, tz)]
    /\ UNCHANGED <<tokenVars, op, TimeZone, avail, date>>

\* the rest of GetCalendarItems: doRequest (getToken under the token lock,
\* one POST) and the test of the response code
GetCalendarItemsRequest(p) ==
    /\ conc[p].pc = "request"
    /\ \E resp \in AssumeAnswers, m \in Mailboxes,
          http \in HttpOutcomes({<< >>}) :
        LET te == TokenEnv(currentToken, tokenExpiry, now, resp, now)
            out == ImpGetCalendarItems(te, m, http)
        IN /\ out.assumes = 1 => awsCalls < MaxAwsCalls
           /\ currentToken' = out.slot.token
           /\ tokenExpiry' = out.slot.expiry
           /\ awsCalls' = awsCalls + out.assumes
           /\ conc' = [conc EXCEPT ![p].pc = "done",
                                   ![p].err = out.err.kind]
    /\ UNCHANGED <<now, tokenLock, pc, ret, hist, grants, invocations, op,
                   TimeZone, avail, date>>

SharedNext ==
    \/ \E p \in Callers : SetTimezoneLoad(p)
    \/ \E p \in Callers : SetTimezoneStore(p)
    \/ \E p \in Callers : GetCalendarItemsBegin(p)
    \/ \E p \in Callers : GetCalendarItemsFormatStart(p)
    \/ \E p \in Callers : GetCalendarItemsFormatEnd(p)
    \/ \E p \in Callers : GetCalendarItemsRequest(p)

\* ------------------------------------------------------------------------
\* The availability queries as steps of a run
\* ------------------------------------------------------------------------

\* largest number of items a fetch returns
MaxItems == 2

\* the Start and End strings of fetched items: 00:30 with a Z, 01:30 at
\* +00:30 (01:00 UTC), a bare 01:00, 01:30 at +0000, and one that no layout
\* accepts
ItemDates ==
    {DateStr("Z", 30 * Minute, 0),
     DateStr("colon", 90 * Minute, 30 * Minute),
     DateStr("bare", 60 * Minute, 0),
     DateStr("nocolon", 90 * Minute, 0),
     DateStr("junk", 0, 0)}

FetchedItems == {CalendarItem("id", a, b) : a, b \in ItemDates}

\* the item lists a fetch can return
FetchedLists == UNION {[1..k -> FetchedItems] : k \in 0..MaxItems}

\* the slots asked about: 00:30-01:00, 01:00-01:30, and the backwards
\* 01:00-00:30 (a TimeSlot does not enforce Start < End)
Slots ==
    {TimeSlot(Time(30 * Minute, UTC), Time(60 * Minute, UTC)),
     TimeSlot(Time(60 * Minute, UTC), Time(90 * Minute, UTC)),
     TimeSlot(Time(60 * Minute, UTC), Time(30 * Minute, UTC))}

\* a 200 response with a well-formed envelope reporting success
OkResponse(items) ==
    [sent |-> TRUE, status |-> StatusOK, readOk |-> TRUE,
     body |-> Body("envelope", TRUE, "Success", "NoError", items)]

\* the outcomes of the fetch of an availability query
FetchOutcomes ==
    HttpOutcomes({<< >>}) \cup {OkResponse(il) : il \in FetchedLists}

NoAvail == [call |-> "", slot |-> TimeSlot(Time(0, UTC), Time(0, UTC)),
            dur |-> 0, http |-> NoHttp,
            out |-> [res |-> SlotResult(FALSE, << >>, NilErr),
                     fetch |-> Outcome(NilErr, Nil, << >>, 0, FALSE, NoSlot)]]

CallCheckSlotAvailability ==
    /\ avail.call = ""
    /\ \E slot \in Slots, http \in FetchOutcomes :
         avail' = [call |-> "CheckSlotAvailability", slot |-> slot,
                   dur |-> 0, http |-> http,
                   out |-> CheckSlotAvailability(slot, TimeZone, http)]
    /\ UNCHANGED <<tokenVars, op, TimeZone, date, conc>>

\* the periods searched for free slots: 00:00-02:00, 00:00-01:00,
\* 00:30-01:30, the empty 01:00-01:00 and the backwards 01:30-00:30
Periods ==
    {TimeSlot(Time(0, UTC), Time(120 * Minute, UTC)),
     TimeSlot(Time(0, UTC), Time(60 * Minute, UTC)),
     TimeSlot(Time(30 * Minute, UTC), Time(90 * Minute, UTC)),
     TimeSlot(Time(60 * Minute, UTC), Time(60 * Minute, UTC)),
     TimeSlot(Time(90 * Minute, UTC), Time(30 * Minute, UTC))}

\* the slot durations asked for
Durations == {30 * Minute, 60 * Minute}

CallGetAvailableSlots ==
    /\ avail.call = ""
    /\ \E period \in Periods, d \in Durations, http \in FetchOutcomes :
         avail' = [call |-> "GetAvailableSlots", slot |-> period,
                   dur |-> d, http |-> http,
                   out |-> GetAvailableSlots(period.Start, period.End, d,
                                             TimeZone, http)]
    /\ UNCHANGED <<tokenVars, op, TimeZone, date, conc>>

AvailNext ==
    \/ CallCheckSlotAvailability
    \/ CallGetAvailableSlots

\* a basic-auth client made by NewClient or NewClientWithTimezone
AvailInit ==
    /\ TokenInit
    /\ op = NoOp
    /\ TimeZone \in Locations
    /\ avail = NoAvail
    /\ date = NoDate
    /\ conc = NoConc

\* ------------------------------------------------------------------------
\* The date conversions as steps of a run
\* ------------------------------------------------------------------------

\* the latest quarter of an hour of the timestamps converted
MaxQuarterHours == 10

\* the timestamps formatted: whole seconds on and just after the quarters
\* of an hour, held in either of two locations
Stamps ==
    {Time(k * 15 * Minute + sec, l) :
        k \in 0..MaxQuarterHours, sec \in {0, 1}, l \in {UTC, East}}

\* the date strings parsed: each form at 00:30, 01:00 and 01:30 on the wall
\* clock, the forms with an offset at -00:30, +00:00 and +00:30
DateStrings ==
    {DateStr(f, w * 30 * Minute, 0) :
        f \in {"Z", "bare", "junk"}, w \in 1..3}
    \cup
    {DateStr(f, w * 30 * Minute, o * 30 * Minute) :
        f \in {"colon", "nocolon"}, w \in 1..3, o \in {-1, 0, 1}}

Clients == {"basic", "impersonation"}

\* c.ParseDateTime(d) of the given client
ParseDateTime(client, d, tz) ==
    IF client = "basic" THEN EwsParseDateTime(d, tz)
    ELSE ImpParseDateTime(d, tz)

\* c.ParseDateTime(c.FormatDateWithTZ(t))
CallRoundTrip ==
    \E client \in Clients, t \in Stamps :
        LET d == FormatDateWithTZ(t, TimeZone)
        IN /\ date' = [call |-> "RoundTrip", client |-> client, t |-> t,
                       input |-> d,
                       parsed |-> ParseDateTime(client, d, TimeZone)]
           /\ UNCHANGED <<tokenVars, op, TimeZone, avail, conc>>

\* c.ParseDateTime(d)
CallParseDateTime ==
    \E client \in Clients, d \in DateStrings :
        /\ date' = [call |-> "ParseDateTime", client |-> client,
                    t |-> Time(0, UTC), input |-> d,
                    parsed |-> ParseDateTime(client, d, TimeZone)]
        /\ UNCHANGED <<tokenVars, op, TimeZone, avail, conc>>

DatesNext ==
    \/ CallRoundTrip
    \/ CallParseDateTime

\* a client of either kind in any timezone
DatesInit ==
    /\ TokenInit
    /\ op = NoOp
    /\ TimeZone \in Locations
    /\ avail = NoAvail
    /\ date = NoDate
    /\ conc = NoConc

\* ------------------------------------------------------------------------
\* Specifications
\* ------------------------------------------------------------------------

Init ==
    /\ TokenInit /\ op = NoOp /\ TimeZone = Local /\ avail = NoAvail
    /\ date = NoDate /\ conc = NoConc

\* concurrent callers of getToken on one impersonation client
Next ==
    \/ \E p \in Callers : GetTokenCall(p)
    \/ \E p \in Callers : GetTokenLock(p)
    \/ \E p \in Callers : GetTokenCheck(p)
    \/ \E p \in Callers : GetTokenAssumeReturn(p)
    \/ Tick

Spec == Init /\ [][Next]_vars

\* a caller enters getToken while the identity service can still be asked
\* once for every call entered
GetTokenCallServed(p) ==
    /\ invocations < MaxAwsCalls
    /\ GetTokenCall(p)

LiveNext ==
    \/ \E p \in Callers : GetTokenCallServed(p)
    \/ \E p \in Callers : GetTokenLock(p)
    \/ \E p \in Callers : GetTokenCheck(p)
    \/ \E p \in Callers : GetTokenAssumeReturn(p)
    \/ Tick

\* a goroutine that can run does run: Lock returns once the lock stays
\* free, the code after it runs on, and every AssumeImpersonationRole call
\* returns
Fairness ==
    \A p \in Callers :
        /\ WF_vars(GetTokenLock(p))
        /\ WF_vars(GetTokenCheck(p))
        /\ WF_vars(GetTokenAssumeReturn(p))

\* concurrent callers of getToken, every one of them scheduled
SpecLive == Init /\ [][LiveNext]_vars /\ Fairness

\* the instants of the clock
Times == {k * 300 : k \in 0..MaxTicks}

\* a client before an operation, in any timezone: its token slot is empty,
\* or holds what an earlier getToken call stored at some time t0 <= now
OpsInit ==
    /\ now \in Times
    /\ tokenLock = Unlocked
    /\ pc = [p \in Callers |-> "idle"]
    /\ ret = [p \in Callers |-> NoReturn]
    /\ hist = [p \in Callers |-> NoHist]
    /\ grants = [n \in 1..MaxAwsCalls |-> Pending]
    /\ invocations = 0
    /\ op = NoOp
    /\ TimeZone \in Locations
    /\ avail = NoAvail
    /\ date = NoDate
    /\ conc = NoConc
    /\ \/ currentToken = NoToken /\ tokenExpiry = 0 /\ awsCalls = 0
       \/ \E t0 \in {t \in Times : t <= now}, resp \in AssumeResponses(1) :
             /\ RefreshError(resp) = NoError
             /\ currentToken = RefreshSlot(NoToken, 0, resp, t0).token
             /\ tokenExpiry = RefreshSlot(NoToken, 0, resp, t0).expiry
             /\ awsCalls = 1

\* one repository operation of either client, on a client in any state
\* getToken can have left it in
SpecOps == OpsInit /\ [][OpsNext]_vars

\* one availability query of a basic-auth client in any timezone
SpecAvail == AvailInit /\ [][AvailNext]_vars

\* date conversions of a client of either kind in any timezone
SpecDates == DatesInit /\ [][DatesNext]_vars

\* goroutines that call SetTimezone and GetCalendarItems on one new
\* impersonation client
SpecShared == Init /\ [][SharedNext]_vars

\* ------------------------------------------------------------------------
\* Properties of getToken
\* ------------------------------------------------------------------------

\* what the refresher of call n received from getToken
GrantOutcome(n) ==
    [token |-> IF grants[n].err = NoError THEN grants[n].resp.Token ELSE NoToken,
     err |-> grants[n].err]

\* the callers whose current getToken call started while a refresh was in
\* flight
Overlapping == {p \in Callers : hist[p].during # 0}

C3_Serialized ==
    /\ Cardinality({p \in Callers : pc[p] \in {"check", "assume"}}) <= 1
    /\ Cardinality({p \in Callers : pc[p] = "assume"}) <= 1
    /\ \A p \in Callers : pc[p] \in {"check", "assume"} => tokenLock = p

C3_Witness ==
    \E p, q \in Callers :
        /\ pc[p] = "assume"
        /\ pc[q] = "lock"
        /\ hist[q].during = hist[p].called

\* C4: a getToken call that tests the cache returns the cached token, calls
\* no service and leaves the slot alone exactly when a token is cached and
\* now is strictly before expiry - 5 minutes; otherwise it starts a refresh.
C4_CacheHit ==
    [][\A p \in Callers :
         (pc[p] = "check" /\ pc'[p] # "check") =>
            IF currentToken # NoToken /\ now < tokenExpiry - 5 * 60
            THEN /\ pc'[p] = "done"
                 /\ ret'[p] = [token |-> currentToken, err |-> NoError]
                 /\ awsCalls' = awsCalls
                 /\ currentToken' = currentToken
                 /\ tokenExpiry' = tokenExpiry
            ELSE /\ pc'[p] = "assume"
                 /\ awsCalls' = awsCalls + 1
                 /\ ret'[p] = NoReturn]_vars

C4_Witness ==
    \E p, q \in Callers :
        /\ pc[p] = "done" /\ hist[p].called = 0
        /\ ret[p].token = currentToken /\ currentToken # NoToken
        /\ pc[q] = "assume" /\ now = tokenExpiry - tokenRefreshBuffer

\* C5: when the identity service fails or omits the token or the expiry,
\* getToken returns an error and the slot is what it was; a successful
\* refresh stores the new token with expiry now + ExpiresIn and returns it;
\* nothing else changes the slot.
C5_FailedRefreshKeepsSlot ==
    [][/\ \A p \in Callers :
            (pc[p] = "assume" /\ pc'[p] = "done") =>
               LET r == grants'[hist[p].called].resp
               IN IF r.err \/ r.Token = Nil \/ r.ExpiresIn = Nil
                  THEN /\ ret'[p].err # NoError
                       /\ currentToken' = currentToken
                       /\ tokenExpiry' = tokenExpiry
                  ELSE /\ ret'[p] = [token |-> r.Token, err |-> NoError]
                       /\ currentToken' = r.Token
                       /\ tokenExpiry' = now + r.ExpiresIn
       /\ (currentToken' # currentToken \/ tokenExpiry' # tokenExpiry) =>
             \E p \in Callers : /\ pc[p] = "assume" /\ pc'[p] = "done"
                                /\ ret'[p].err = NoError]_vars

C5_Witness ==
    \E p \in Callers :
        /\ pc[p] = "done"
        /\ hist[p].called # 0
        /\ ret[p].err # NoError
        /\ currentToken # NoToken
        /\ currentToken < hist[p].called

\* ------------------------------------------------------------------------
\* Properties of the repository operations
\* ------------------------------------------------------------------------

\* an operation has been called on the given client
Called(client) == op.client = client

\* the exchange of the last operation came back with a status and a body
Answered == op.http.sent /\ op.http.readOk

\* C6: UpdateCalendarEvent of the impersonation client with a patch that has
\* no present field fails with the empty-update error, issues no HTTP POST
\* and makes no identity-service call.
C6_EmptyUpdateNoNetwork ==
    (Called("impersonation") /\ op.kind = "UpdateItem" /\ op.patch = {}) =>
        /\ op.out.err.kind = "EmptyUpdateError"
        /\ op.out.posts = << >>
        /\ op.out.assumes = 0

C6_Witness ==
    /\ Called("impersonation") /\ op.kind = "UpdateItem" /\ op.patch = {}
    /\ op.out.err.kind = "EmptyUpdateError"
    /\ ~TokenFresh(currentToken, tokenExpiry, now)

C8_UnsupportedBeforeNetwork ==
    (Called("impersonation") /\ op.kind \notin SupportedKinds \cup ZoneKinds) =>
        /\ op.out.err.kind = "UnsupportedTypeError"
        /\ op.out.assumes = 0
        /\ op.out.posts = << >>

\* the response of the last operation reports something other than the
\* success sentinel of its kind
NotSuccess ==
    IF op.kind = "FindItem"
    THEN op.http.body.code # "NoError"
    ELSE op.http.body.class # "Success"

\* C9: in find, create, update and delete of either client, an HTTP-200
\* response whose class (code, for find) is not the success sentinel makes
\* the operation return an error.
C9_NonSuccessSurfaced ==
    (/\ ~Idle /\ op.kind \in SupportedKinds
     /\ Answered /\ op.http.status = StatusOK /\ op.http.body.xmlOk
     /\ NotSuccess) =>
        op.out.err # NilErr

\* ------------------------------------------------------------------------
\* Properties of the availability queries
\* ------------------------------------------------------------------------

\* the items the fetch of the last query returned
Fetched == avail.http.body.items

\* the instant a date string of a fetched item denotes for the client
Instant(d) == EwsParseDateTime(d, TimeZone).t.unix

\* the last query was a CheckSlotAvailability whose fetch succeeded and
\* whose items all carry dates that parse
CheckedParsable ==
    /\ avail.call = "CheckSlotAvailability"
    /\ avail.out.fetch.err = NilErr
    /\ \A i \in 1..Len(Fetched) :
          Fetched[i].Start.form # "junk" /\ Fetched[i].End.form # "junk"

\* C10: CheckSlotAvailability returns as conflicts exactly the fetched
\* items, in fetch order, with start < slot.End and end > slot.Start (an
\* item that only touches the slot is none), and reports the slot available
\* exactly when there is no conflict.
C10_ConflictRule ==
    CheckedParsable =>
        /\ avail.out.res.err = NilErr
        /\ avail.out.res.conflicts =
              SelectSeq(Fetched,
                        LAMBDA it : /\ Instant(it.Start) < avail.slot.End.unix
                                    /\ Instant(it.End) > avail.slot.Start.unix)
        /\ avail.out.res.available = (avail.out.res.conflicts = << >>)

\* two items fetched, the first touching the slot's start and kept out, the
\* second overlapping and reported
C10_Witness ==
    /\ CheckedParsable
    /\ Len(Fetched) = 2
    /\ Instant(Fetched[1].End) = avail.slot.Start.unix
    /\ Instant(Fetched[1].Start) < Instant(Fetched[1].End)
    /\ avail.out.res.conflicts = <<Fetched[2]>>
    /\ ~avail.out.res.available

\* ------------------------------------------------------------------------
\* Properties of the search for free slots
\* ------------------------------------------------------------------------

Max(S) == CHOOSE x \in S : \A y \in S : y <= x

\* the last query was a GetAvailableSlots whose fetch succeeded and whose
\* items all carry dates that parse
SearchedParsable ==
    /\ avail.call = "GetAvailableSlots"
    /\ avail.out.fetch.err = NilErr
    /\ \A i \in 1..Len(Fetched) :
          Fetched[i].Start.form # "junk" /\ Fetched[i].End.form # "junk"

\* the cursor of the reference walk when it reaches item i (or the end of
\* the period, for i one past the last item): the latest of the period's
\* start and the ends of the items before i
Cursor(i) ==
    Max({avail.slot.Start.unix} \cup
        {Instant(Fetched[j].End) : j \in 1..(i - 1)})

\* where the gap that starts at Cursor(i) ends
GapEnd(i) ==
    IF i <= Len(Fetched) THEN Instant(Fetched[i].Start)
    ELSE avail.slot.End.unix

\* the free slots of the reference walk, as pairs of instants
ReferenceSlots ==
    SelectSeq([i \in 1..(Len(Fetched) + 1) |-> <<Cursor(i), GapEnd(i)>>],
              LAMBDA g : g[2] - g[1] >= avail.dur)

\* the free slots the last query returned, as pairs of instants
ReturnedSlots ==
    [k \in 1..Len(avail.out.res.slots) |->
        <<avail.out.res.slots[k].Start.unix, avail.out.res.slots[k].End.unix>>]

\* C11: on a non-empty item list GetAvailableSlots returns exactly the free
\* slots of the reference walk: for each item in the given order the gap
\* [cursor, item.start) iff it is at least the minimum duration, the cursor
\* then moving to max(cursor, item.end), and after the last item the gap
\* [cursor, periodEnd) iff it is at least the minimum duration.
C11_ReferenceWalk ==
    (SearchedParsable /\ Len(Fetched) > 0) =>
        /\ avail.out.res.err = NilErr
        /\ ReturnedSlots = ReferenceSlots

\* one item at the start of the period, an item that ends before the cursor
\* after it, and the only free slot the one after them
C11_Witness ==
    /\ SearchedParsable
    /\ Len(Fetched) = 2
    /\ Instant(Fetched[1].Start) - avail.slot.Start.unix < avail.dur
    /\ Instant(Fetched[2].End) < Instant(Fetched[1].End)
    /\ ReturnedSlots = <<<<Instant(Fetched[1].End), avail.slot.End.unix>>>>

\* C12: when the fetch returns no item, GetAvailableSlots returns exactly
\* the one slot [periodStart, periodEnd], whatever the minimum duration and
\* whatever the period, a period that ends at or before its start included.
C12_EmptyListWholePeriod ==
    (/\ avail.call = "GetAvailableSlots"
     /\ avail.out.fetch.err = NilErr
     /\ Len(Fetched) = 0) =>
        avail.out.res =
            SlotsResult(<<TimeSlot(avail.slot.Start, avail.slot.End)>>, NilErr)

\* no item fetched for a period that runs backwards, returned as it is
C12_Witness ==
    /\ avail.call = "GetAvailableSlots"
    /\ avail.out.fetch.err = NilErr
    /\ Len(Fetched) = 0
    /\ avail.slot.End.unix < avail.slot.Start.unix
    /\ Len(avail.out.res.slots) = 1
    /\ avail.out.res.slots[1].End.unix < avail.out.res.slots[1].Start.unix

\* the fetched items are not in non-decreasing order of start
Unsorted ==
    \E i, j \in 1..Len(Fetched) :
        i < j /\ Instant(Fetched[j].Start) < Instant(Fetched[i].Start)

\* C13: GetAvailableSlots scans the items in the order given, without
\* sorting them and without failing on a list that is not sorted by start:
\* it returns no error, and when the first listed item starts at least the
\* minimum duration after the period's start, the first slot returned is
\* [periodStart, that item's start), whatever items that start earlier
\* follow in the list.
C13_UnsortedScannedAsGiven ==
    (SearchedParsable /\ Unsorted) =>
        /\ avail.out.res.err = NilErr
        /\ Instant(Fetched[1].Start) - avail.slot.Start.unix >= avail.dur =>
              /\ Len(avail.out.res.slots) >= 1
              /\ ReturnedSlots[1] =
                    <<avail.slot.Start.unix, Instant(Fetched[1].Start)>>

\* an unsorted list for which a returned free slot overlaps a busy item
C13_Witness ==
    /\ SearchedParsable /\ Unsorted
    /\ avail.out.res.err = NilErr
    /\ \E k \in 1..Len(avail.out.res.slots), i \in 1..Len(Fetched) :
          /\ Instant(Fetched[i].Start) < Instant(Fetched[i].End)
          /\ ReturnedSlots[k][1] < ReturnedSlots[k][2]
          /\ Instant(Fetched[i].Start) < ReturnedSlots[k][2]
          /\ Instant(Fetched[i].End) > ReturnedSlots[k][1]

\* ------------------------------------------------------------------------
\* Properties of the requests built by update and create
\* ------------------------------------------------------------------------

\* the canonical protocol path of each field of a patch
CanonicalPath ==
    [Subject |-> "item:Subject", Body |-> "item:Body",
     Start |-> "calendar:Start", End |-> "calendar:End",
     Location |-> "calendar:Location",
     LegacyFreeBusy |-> "calendar:LegacyFreeBusyStatus",
     RequiredAttendees |-> "calendar:RequiredAttendees",
     OptionalAttendees |-> "calendar:OptionalAttendees"]

\* C14: UpdateCalendarEvent of either client puts into its request exactly
\* one SetItemField per present field of the patch, tagged with that
\* field's canonical path, and none for an absent field; the operations go
\* out in one single request, or nothing is sent.
C14_OneOperationPerField ==
    (~Idle /\ op.kind = "UpdateItem") =>
        /\ Len(op.out.posts) <= 1
        /\ \A k \in 1..Len(op.out.posts) :
              LET ops == op.out.posts[k].request.fields
              IN /\ Len(ops) = Cardinality(op.patch)
                 /\ \A f \in op.patch :
                       Cardinality({i \in 1..Len(ops) :
                                      ops[i].FieldURI = CanonicalPath[f]}) = 1
                 /\ \A i \in 1..Len(ops) :
                       \E f \in op.patch : ops[i].FieldURI = CanonicalPath[f]

\* the full patch, sent as eight operations in one request
C14_Witness ==
    /\ ~Idle /\ op.kind = "UpdateItem"
    /\ op.patch = Fields
    /\ Len(op.out.posts) = 1
    /\ Len(op.out.posts[1].request.fields) = 8
    /\ op.out.err = NilErr

\* an HTTP-200 response that unmarshals answered the last operation
Answered200 ==
    Answered /\ op.http.status = StatusOK /\ op.http.body.xmlOk

\* C15: on an HTTP-200 response CreateCalendarEvent of either client fails
\* with a protocol error when the class is not "Success", fails with a
\* missing-result error when the class is "Success" and no item came back,
\* and returns the identity of the first item otherwise; in no case does it
\* return an identity together with an error, or neither.
C15_CreateOutcome ==
    (~Idle /\ op.kind = "CreateItem") =>
        /\ (op.out.err = NilErr) <=> (op.out.val # << >>)
        /\ Answered200 =>
              IF op.http.body.class # "Success"
              THEN op.out.err.kind = "ProtocolError"
              ELSE IF Len(op.http.body.items) = 0
              THEN op.out.err.kind = "MissingResultError"
              ELSE /\ op.out.err = NilErr
                   /\ op.out.val = <<op.http.body.items[1].Id>>

\* two items came back with class "Success": the first one's identity is
\* returned
C15_Witness ==
    /\ ~Idle /\ op.kind = "CreateItem" /\ Answered200
    /\ op.http.body.class = "Success"
    /\ Len(op.http.body.items) = 2
    /\ op.out.val = <<op.http.body.items[1].Id>>
    /\ op.out.err = NilErr

\* C16: the calendar item CreateCalendarEvent of either client sends has
\* its start and end written without a UTC offset, as the wall clock of the
\* client's timezone, its reminder set at 15 minutes, the free/busy status
\* Busy, and each attendee list present exactly when the event's list is
\* not empty.
C16_CreatePayload ==
    (~Idle /\ op.kind = "CreateItem") =>
        \A k \in 1..Len(op.out.posts) :
            LET item == op.out.posts[k].request.item
            IN /\ item.Start.form = "bare"
               /\ item.Start.wall = Wall(In(op.event.Start, TimeZone))
               /\ item.End.form = "bare"
               /\ item.End.wall = Wall(In(op.event.End, TimeZone))
               /\ item.ReminderIsSet /\ item.ReminderMinutes = 15
               /\ item.LegacyFreeBusy = "Busy"
               /\ (item.RequiredAttendees # << >>) <=>
                     (op.event.RequiredAttendees # << >>)
               /\ (item.OptionalAttendees # << >>) <=>
                     (op.event.OptionalAttendees # << >>)

\* ------------------------------------------------------------------------
\* Properties of the timezone calls
\* ------------------------------------------------------------------------

\* the zone names time.LoadLocation resolves
KnownZoneNames == {"UTC", "Local"} \cup {l.name : l \in Locations}

\* loc is the zone called name
IsZoneNamed(loc, name) ==
    IF name = "Local" THEN loc = Local ELSE loc.name = name

\* C17: SetTimezone with a name the timezone database does not know fails
\* with an invalid-timezone error and leaves the client's timezone as it
\* was, and with a known name makes that zone the client's timezone;
\* NewClientWithTimezone with an unknown name returns an error and no
\* client.
C17_TimezoneValidated ==
    /\ op.kind = "SetTimezone" =>
          IF op.zone.name \in KnownZoneNames
          THEN op.out.err.kind = "" /\ IsZoneNamed(TimeZone, op.zone.name)
          ELSE /\ op.out.err.kind = "invalid timezone"
               /\ TimeZone = op.zone.before
    /\ op.kind = "NewClientWithTimezone" =>
          IF op.zone.name \in KnownZoneNames
          THEN /\ op.out.err.kind = "" /\ Len(op.out.val) = 1
               /\ IsZoneNamed(op.out.val[1].TimeZone, op.zone.name)
          ELSE op.out.err.kind = "invalid timezone" /\ op.out.val = << >>

\* an unknown name handed to SetTimezone of a client that an earlier call
\* had moved away from the default zone
C17_Witness ==
    /\ op.kind = "SetTimezone"
    /\ op.zone.name \notin KnownZoneNames
    /\ op.out.err.kind = "invalid timezone"
    /\ op.zone.before # Local
    /\ TimeZone = op.zone.before

\* ------------------------------------------------------------------------
\* Properties of the date conversions
\* ------------------------------------------------------------------------

\* C18 (as stated): for every whole-second timestamp t and every client
\* timezone, ParseDateTime(FormatDateWithTZ(t)) succeeds and denotes the
\* instant of t.
C18_RoundTrip ==
    date.call = "RoundTrip" =>
        date.parsed.ok /\ date.parsed.t.unix = date.t.unix

\* C18 (amended): ParseDateTime(FormatDateWithTZ(t)) succeeds for every
\* whole-second timestamp t and every client timezone, and denotes the
\* instant of t whenever the timezone's offset from UTC at t is a whole
\* number of minutes.
C18_RoundTripWholeMinuteOffset ==
    date.call = "RoundTrip" =>
        /\ date.parsed.ok
        /\ ZoneOffset(TimeZone, date.t.unix) % Minute = 0 =>
              date.parsed.t.unix = date.t.unix

\* a timestamp held in another location than the client's, formatted while
\* the client's zone is on its summer offset, and parsed back to its instant
C18_Witness ==
    /\ date.call = "RoundTrip"
    /\ date.t.loc # TimeZone
    /\ date.t.unix % Minute # 0
    /\ ZoneOffset(TimeZone, date.t.unix) # TimeZone.std
    /\ date.parsed.ok
    /\ date.parsed.t.unix = date.t.unix

\* the instant a date string with a zone of its own denotes
OwnInstant(d) == d.wall - d.off

\* C19: ParseDateTime of either client accepts a string with an offset, one
\* with a Z, one with an offset without colon and one with no zone, the
\* result being that of the first layout that matches, and fails on any
\* other string with an error that carries the string.
C19_FormsAccepted ==
    date.call = "ParseDateTime" =>
        IF date.input.form \in {"colon", "Z", "nocolon"}
        THEN date.parsed.ok /\ date.parsed.t.unix = OwnInstant(date.input)
        ELSE IF date.input.form = "bare"
        THEN date.parsed.ok
        ELSE ~date.parsed.ok /\ date.parsed.input = date.input

\* C20: when the string parsed has no zone, the result of ParseDateTime of
\* either client shows the wall clock of the string and is in the client's
\* timezone; when the string has an offset or a Z, the result denotes the
\* string's instant and is in the client's timezone.
C20_ZoneAttribution ==
    (date.call = "ParseDateTime" /\ date.parsed.ok) =>
        /\ date.parsed.t.loc = TimeZone
        /\ IF date.input.form = "bare"
           THEN Wall(date.parsed.t) = date.input.wall
           ELSE date.parsed.t.unix = OwnInstant(date.input)

\* ------------------------------------------------------------------------
\* Properties of the state shared between goroutines
\* ------------------------------------------------------------------------

\* a call of GetCalendarItems that has formatted both of its dates wrote
\* them in one and the same zone
OneZone(p) ==
    \E tz \in Locations :
        /\ conc[p].startStr = FormatDateWithTZ(SearchStart, tz)
        /\ conc[p].endStr = FormatDateWithTZ(SearchEnd, tz)

\* C21: apart from the token slot no field of the client is written by one
\* operation while another running operation can read it without mutual
\* exclusion: SetTimezone never stores the timezone while a repository
\* operation of another goroutine still has a read of it ahead, so that a
\* request's two dates are always written in one zone.
C21_OnlyTokenSlotShared ==
    /\ \A p, q \in Callers :
          (p # q /\ conc[p].pc = "store") => conc[q].pc \notin ReadAhead
    /\ \A p \in Callers :
          (conc[p].kind = "GetCalendarItems"
           /\ conc[p].pc \in {"request", "done"}) => OneZone(p)

\* ------------------------------------------------------------------------
\* Properties of the requests of the impersonation client
\* ------------------------------------------------------------------------

\* the SOAPAction header that names each operation
OperationAction ==
    [FindItem |->
        "http://schemas.microsoft.com/exchange/services/2006/messages/FindItem",
     CreateItem |->
        "http://schemas.microsoft.com/exchange/services/2006/messages/CreateItem",
     UpdateItem |->
        "http://schemas.microsoft.com/exchange/services/2006/messages/UpdateItem",
     DeleteItem |->
        "http://schemas.microsoft.com/exchange/services/2006/messages/DeleteItem"]

\* the getToken call of the last operation had to ask the identity service
\* and the answer was an error or lacked the token or the expiry
TokenFailed == op.out.assumes = 1 /\ RefreshError(op.resp) # NoError

\* C22: a repository operation of the impersonation client issues its HTTP
\* POST only after getToken has returned a token: the one POST carries that
\* token as bearer token (the token just granted, or the cached one when
\* getToken made no call), the SOAPAction header naming the operation, the
\* target mailbox in the impersonation header and a body holding the request
\* of the operation's kind and no other; when getToken fails the operation
\* returns that error and issues no POST.
C22_TokenThenPost ==
    (Called("impersonation") /\ op.kind \in SupportedKinds) =>
        /\ Len(op.out.posts) <= 1
        /\ \A k \in 1..Len(op.out.posts) :
              LET post == op.out.posts[k]
              IN /\ post.auth = "Bearer"
                 /\ post.token # NoToken
                 /\ post.token = IF op.out.assumes = 1 THEN op.resp.Token
                                 ELSE currentToken
                 /\ post.soapAction = OperationAction[op.kind]
                 /\ post.impersonate = op.target
                 /\ post.request.kind = op.kind
        /\ TokenFailed =>
              /\ op.out.posts = << >>
              /\ op.out.err = Err("TokenError", 0, "", RefreshError(op.resp))

\* an update of the second mailbox for which getToken asked the identity
\* service, the POST carrying the token just granted
C22_Witness ==
    /\ Called("impersonation") /\ op.kind = "UpdateItem"
    /\ op.target = "room@example.com"
    /\ op.out.assumes = 1
    /\ Len(op.out.posts) = 1
    /\ op.out.posts[1].token = op.resp.Token
    /\ op.out.posts[1].impersonate = "room@example.com"

\* ------------------------------------------------------------------------
\* Termination of getToken
\* ------------------------------------------------------------------------

\* the callers between Lock and the return of getToken
Inside == {p \in Callers : pc[p] \in {"check", "assume"}}

\* C23: getToken releases the token lock on every return (cache hit,
\* refresh, identity-service error, malformed response): the lock is held
\* exactly while a caller is between Lock and its return; and provided
\* every identity-service call returns, every getToken call that any of the
\* concurrent callers has started returns.
C23_GetTokenReturns ==
    /\ []((tokenLock = Unlocked) <=> (Inside = {}))
    /\ \A p \in Callers : (pc[p] = "lock") ~> (pc[p] = "done")

\* a caller that waited while the other's refresh failed has returned from
\* a refresh of its own, and the lock is free
C23_Witness ==
    \E p, q \in Callers :
        /\ pc[p] = "done" /\ pc[q] = "done"
        /\ hist[q].called # 0 /\ ret[q].err # NoError
        /\ hist[p].during = hist[q].called
        /\ hist[p].called # 0
        /\ tokenLock = Unlocked

\* ------------------------------------------------------------------------
\* The token slot over interleaved getToken calls
\* ------------------------------------------------------------------------

\* the identity-service calls that have returned a usable response
Succeeded == {n \in 1..MaxAwsCalls : grants[n].err = NoError}

\* C24: under any interleaving of getToken calls the cached token is
\* absent exactly when no refresh has succeeded; a cached token is never
\* cleared; the cached token and the cached expiry come from one and the
\* same successful response (the expiry is that response's lifetime counted
\* from the moment it was stored, and they change together only); and a
\* token returned by getToken is the token cached when it returns.
C24_TokenSlotInvariant ==
    /\ []((currentToken = NoToken) <=> (Succeeded = {}))
    /\ [](currentToken # NoToken =>
            /\ currentToken \in Succeeded
            /\ grants[currentToken].resp.Token = currentToken
            /\ tokenExpiry - grants[currentToken].resp.ExpiresIn \in 0..now)
    /\ [][/\ currentToken # NoToken => currentToken' # NoToken
          /\ (currentToken' # currentToken \/ tokenExpiry' # tokenExpiry) =>
                \E n \in Succeeded' \ Succeeded :
                    /\ currentToken' = grants'[n].resp.Token
                    /\ tokenExpiry' = now + grants'[n].resp.ExpiresIn
          /\ \A p \in Callers :
                (pc[p] # "done" /\ pc'[p] = "done" /\ ret'[p].err = NoError) =>
                    /\ ret'[p].token # NoToken
                    /\ ret'[p].token = currentToken']_vars

\* two refreshes have succeeded one after the other: the slot holds the
\* second token with the second expiry, the first caller had been handed the
\* first token
C24_Witness ==
    \E p, q \in Callers :
        /\ Succeeded = {1, 2}
        /\ pc[p] = "done" /\ ret[p].token = 1
        /\ pc[q] = "done" /\ ret[q].token = 2
        /\ currentToken = 2
        /\ tokenExpiry = now + grants[2].resp.ExpiresIn
        /\ grants[1].resp.ExpiresIn # grants[2].resp.ExpiresIn

\* the lifetime the identity service granted the cached token
CachedLifetime == grants[currentToken].resp.ExpiresIn

\* C25: a token granted with a lifetime of at most the refresh buffer
\* (ExpiresIn <= 300 seconds) is never served from the cache: every getToken
\* call that finds it in the slot asks the identity service again, so
\* callers that follow one another refresh one after the other.
C25_ShortLifetimeNeverCached ==
    [][\A p \in Callers :
         (/\ pc[p] = "check" /\ pc'[p] # "check"
          /\ currentToken # NoToken
          /\ CachedLifetime <= 300) =>
            /\ pc'[p] = "assume"
            /\ awsCalls' = awsCalls + 1
            /\ hist'[p].called = awsCalls + 1]_vars

\* a token with a lifetime of exactly five minutes was stored, and the
\* caller that entered getToken next, with no time gone by, is asking the
\* identity service again
C25_Witness ==
    \E p, q \in Callers :
        /\ now = 0
        /\ currentToken = 1 /\ CachedLifetime = 300
        /\ pc[p] = "done" /\ hist[p].called = 1
        /\ pc[q] = "assume" /\ hist[q].called = 2 /\ hist[q].during = 0

\* ------------------------------------------------------------------------
\* Properties of the update of the basic-auth client
\* ------------------------------------------------------------------------

\* C26: UpdateCalendarEvent of the basic-auth client has no pre-flight
\* check: with a patch in which every field is absent it issues exactly one
\* HTTP POST whose update request holds no SetItemField, and what it
\* returns follows from the exchange alone: an error for a status other
\* than 200, and for a 200 response that unmarshals, nil exactly when the
\* response class is "Success".
C26_BasicEmptyUpdateSent ==
    (Called("basic") /\ op.kind = "UpdateItem" /\ op.patch = {}) =>
        /\ Len(op.out.posts) = 1
        /\ op.out.posts[1].request.kind = "UpdateItem"
        /\ op.out.posts[1].request.fields = << >>
        /\ op.out.err.kind # "EmptyUpdateError"
        /\ (op.http.sent /\ op.http.status # StatusOK) =>
              op.out.err.kind = "TransportError"
        /\ Answered200 =>
              ((op.out.err = NilErr) <=> (op.http.body.class = "Success"))

\* the empty patch was sent and the server answered with success
C26_Witness ==
    /\ Called("basic") /\ op.kind = "UpdateItem" /\ op.patch = {}
    /\ Len(op.out.posts) = 1
    /\ op.out.posts[1].request.fields = << >>
    /\ Answered200 /\ op.http.body.class = "Success"
    /\ op.out.err = NilErr

\* ------------------------------------------------------------------------
\* Properties of the free slots returned
\* ------------------------------------------------------------------------

\* the last query was a GetAvailableSlots that scanned a non-empty list
Scanned == SearchedParsable /\ Len(Fetched) > 0

\* C27: when the fetched list is not empty, every free slot GetAvailableSlots
\* returns is at least the minimum duration long, whatever the order of the
\* items and whatever the period; with a minimum duration above zero every
\* such slot starts before it ends.
C27_SlotsLongEnough ==
    Scanned =>
        \A k \in 1..Len(ReturnedSlots) :
            /\ ReturnedSlots[k][2] - ReturnedSlots[k][1] >= avail.dur
            /\ avail.dur > 0 => ReturnedSlots[k][1] < ReturnedSlots[k][2]

\* an unsorted list: two slots are returned, one of them exactly the minimum
\* duration long
C27_Witness ==
    /\ Scanned /\ Unsorted
    /\ avail.dur > 0
    /\ Len(ReturnedSlots) = 2
    /\ \E k \in 1..2 : ReturnedSlots[k][2] - ReturnedSlots[k][1] = avail.dur

\* every fetched item starts no later than it ends
WellFormed ==
    \A i \in 1..Len(Fetched) :
        Instant(Fetched[i].Start) <= Instant(Fetched[i].End)

\* C28: for a non-empty list in non-decreasing order of start whose items
\* all have start <= end, and a minimum duration above zero, the free slots
\* returned are in strictly increasing order and pairwise disjoint, and none
\* of them overlaps a busy item (no item has start < slot.End and
\* end > slot.Start).
C28_SortedSlotsDisjointAndFree ==
    (Scanned /\ ~Unsorted /\ WellFormed /\ avail.dur > 0) =>
        /\ \A k, l \in 1..Len(ReturnedSlots) :
              k < l => /\ ReturnedSlots[k][1] < ReturnedSlots[l][1]
                       /\ ReturnedSlots[k][2] <= ReturnedSlots[l][1]
        /\ \A k \in 1..Len(ReturnedSlots), i \in 1..Len(Fetched) :
              ~(/\ Instant(Fetched[i].Start) < ReturnedSlots[k][2]
                /\ Instant(Fetched[i].End) > ReturnedSlots[k][1])

\* two busy items in order, the second starting inside the first, with a
\* free slot before them and one after them
C28_Witness ==
    /\ Scanned /\ ~Unsorted /\ WellFormed /\ avail.dur > 0
    /\ Len(Fetched) = 2
    /\ Instant(Fetched[1].Start) < Instant(Fetched[2].Start)
    /\ Instant(Fetched[2].Start) < Instant(Fetched[1].End)
    /\ Len(ReturnedSlots) = 2
    /\ ReturnedSlots[1][2] = Instant(Fetched[1].Start)
    /\ ReturnedSlots[2][1] = Instant(Fetched[2].End)

\* C29: every free slot GetAvailableSlots returns lies inside the period
\* asked for, periodStart <= slot.Start and slot.End <= periodEnd, whatever
\* list was fetched, items that start before the period or after its end
\* included.
C29_SlotsInsidePeriod ==
    (avail.call = "GetAvailableSlots" /\ avail.out.res.err = NilErr) =>
        \A k \in 1..Len(ReturnedSlots) :
            /\ avail.slot.Start.unix <= ReturnedSlots[k][1]
            /\ ReturnedSlots[k][2] <= avail.slot.End.unix

\* ------------------------------------------------------------------------
\* Properties of the failures of the availability queries
\* ------------------------------------------------------------------------

\* the fetch of the last query succeeded
FetchOk == avail.out.fetch.err = NilErr

\* the Start or the End of a fetched item is a string no layout accepts
SomeDateUnparsable ==
    \E i \in 1..Len(Fetched) :
        Fetched[i].Start.form = "junk" \/ Fetched[i].End.form = "junk"

\* the wall clock the client's zone shows at instant u
WallAt(u) == u + ZoneOffset(TimeZone, u)

\* C30: an availability query hands back no partial result: when its
\* GetCalendarItems call fails, or the start or end of any fetched item
\* does not parse, CheckSlotAvailability returns (false, no conflicts,
\* error) and GetAvailableSlots returns (no slots, error), however many
\* items came before the bad one; CheckSlotAvailability fetches the range
\* from one minute before the slot's start to one minute after its end, and
\* with no item fetched reports the slot available with no conflicts.
C30_NoPartialResults ==
    /\ (avail.call # "" /\ (~FetchOk \/ SomeDateUnparsable)) =>
          /\ avail.out.res.err # NilErr
          /\ ~FetchOk => avail.out.res.err = avail.out.fetch.err
          /\ IF avail.call = "CheckSlotAvailability"
             THEN ~avail.out.res.available /\ avail.out.res.conflicts = << >>
             ELSE avail.out.res.slots = << >>
    /\ avail.call = "CheckSlotAvailability" =>
          /\ Len(avail.out.fetch.posts) = 1
          /\ LET range == avail.out.fetch.posts[1].request.fields
             IN /\ range[1].wall = WallAt(avail.slot.Start.unix - 1 * Minute)
                /\ range[2].wall = WallAt(avail.slot.End.unix + 1 * Minute)
          /\ (FetchOk /\ Len(Fetched) = 0) =>
                avail.out.res = SlotResult(TRUE, << >>, NilErr)

\* the first of two items conflicts with the slot and the end of the second
\* does not parse: no conflict is handed back
C30_Witness ==
    /\ avail.call = "CheckSlotAvailability" /\ FetchOk
    /\ Len(Fetched) = 2
    /\ Fetched[1].Start.form # "junk" /\ Fetched[1].End.form # "junk"
    /\ Instant(Fetched[1].Start) < avail.slot.End.unix
    /\ Instant(Fetched[1].End) > avail.slot.Start.unix
    /\ Fetched[2].Start.form # "junk" /\ Fetched[2].End.form = "junk"
    /\ avail.out.res.err # NilErr
    /\ avail.out.res.conflicts = << >>
====
